---- MODULE Spec2Model ----
(***************************************************************************)
(* DownloadManager of distroget (src/downloads.py): a pool of worker       *)
(* threads draining a queue.Queue of URLs, each job fetching (HTTP or      *)
(* torrent), verifying and decompressing one file, with a retry counter    *)
(* per URL.  Every `with self.lock:` block of the source is one atomic     *)
(* action guarded by the lock being free; the retry branch keeps the lock  *)
(* across its time.sleep, so it is two actions with the lock held between. *)
(***************************************************************************)
EXTENDS Integers, Sequences, FiniteSets, TLC

\* ------------------------------------------------------------------ bounds
\* number of worker threads given to the constructor (max_workers)
NumWorkers == 2
\* add_download calls made by the callers in one run
MaxSubmits == 2
\* lines of a checksum file
MaxLines == 2
\* members of a zip archive
MaxMembers == 2

\* ------------------------------------------------------- program constants
max_retries == 3
max_password_attempts == 3

\* --------------------------------------------------------------- universe
\* A URL is modelled by the dot-separated parts of its last path segment,
\* which is all that url.split('/')[-1] and the endswith tests look at.
UrlA == <<"a", "iso">>
UrlB == <<"b", "iso", "bz2">>
UrlT == <<"c", "iso", "torrent">>
\* the URLs callers submit: one fetched over HTTP and expanded, one torrent
URLs == {UrlB, UrlT}
\* with the plain image URL of the end-to-end scenario
AllURLs == URLs \cup {UrlA}
Workers == 1..NumWorkers
NoWorker == 0
\* identities of the per-job dicts: a dict made for url is only ever stored
\* under the key url, in active_downloads and in the copy of it a snapshot
\* holds, so two identities per URL name every dict that is alive
Ids == AllURLs \X {1, 2}
\* how much of a body a file, a local counter or a progress entry holds:
\* nothing yet, some chunks, or all of them (the content-length)
Amounts == {"none", "some", "all"}

\* ---------------------------------------------------------------- helpers
Last(s) == s[Len(s)]
Front(s) == SubSeq(s, 1, Len(s) - 1)
Range(f) == {f[x] : x \in DOMAIN f}
\* dict assignment d[k] = v and del d[k]
DictPut(d, k, v) == [x \in DOMAIN d \cup {k} |-> IF x = k THEN v ELSE d[x]]
DictDel(d, k) == [x \in DOMAIN d \ {k} |-> d[x]]
EmptyDict == [x \in {} |-> 0]
RECURSIVE Pow2(_)
Pow2(n) == IF n = 0 THEN 1 ELSE 2 * Pow2(n - 1)

\* filename = url.split('/')[-1]
Filename(u) == u
\* local_path = os.path.join(self.target_dir, filename)
LocalPath(u) == Filename(u)
\* TorrentDownloader.is_torrent_url: suffix .torrent (the magnet: scheme is
\* not part of the URL universe)
IsTorrentUrl(u) == Last(u) = "torrent"
\* TorrentDownloader._extract_filename for a .torrent URL, joined to target_dir
TorrentPath(u) == Front(u)
\* _decompress_if_needed: which expander a filename selects
Expander(p) ==
    IF Last(p) = "bz2" THEN "bz2"
    ELSE IF Last(p) = "gz" /\ ~(Len(p) >= 2 /\ p[Len(p) - 1] = "tar") THEN "gz"
    ELSE IF Last(p) = "zip" THEN "zip"
    ELSE "none"
\* output_path = filepath[:-4] / filepath[:-3]
OutputPath(p) == Front(p)

\* ------------------------------------------------------------ expanders
\* A path is a sequence of segments; "/" as first segment makes it absolute.
\* No path: what the expanders return for None
NoPath == <<>>
\* extract_dir_abs = os.path.abspath(os.path.dirname(filepath))
TargetDir == <<"/", "dl">>
\* members a zip archive may list (zip_ref.namelist())
ZipMembers == {<<"a.iso">>, <<"B.ISO">>, <<"readme">>, <<"sub", "..", "b.img">>,
               <<"..", "..", "evil">>, <<"sub", "..", "..", "evil.iso">>,
               <<"/", "etc", "passwd">>}
\* what an archive holds: whether it can be read, and for a zip its members
ArchiveContents(kind) ==
    IF kind = "zip"
    THEN {[ok |-> FALSE, members |-> <<>>]} \cup
         {[ok |-> TRUE, members |-> m] :
             m \in UNION {[1..n -> ZipMembers] : n \in 0..MaxMembers}}
    ELSE {[ok |-> b, members |-> <<>>] : b \in BOOLEAN}

\* os.path.join(extract_dir, member)
JoinDir(member) ==
    IF member # <<>> /\ Head(member) = "/" THEN member
    ELSE TargetDir \o member
\* os.path.abspath of an absolute path: ".." climbs, but not above the root
RECURSIVE NormPath(_, _)
NormPath(segs, acc) ==
    IF segs = <<>> THEN acc
    ELSE IF Head(segs) = ".."
         THEN NormPath(Tail(segs), IF Len(acc) > 1 THEN Front(acc) ELSE acc)
         ELSE NormPath(Tail(segs), Append(acc, Head(segs)))
Abspath(path) == NormPath(Tail(path), <<"/">>)
\* member_path.startswith(extract_dir_abs + os.sep) or member_path ==
\* extract_dir_abs
InsideTargetDir(path) ==
    /\ Len(path) >= Len(TargetDir)
    /\ SubSeq(path, 1, Len(TargetDir)) = TargetDir
\* the validation loop raises: a check of the first member only
PathTraversalInFirst(file_list) ==
    file_list # <<>> /\ ~InsideTargetDir(Abspath(JoinDir(file_list[1])))
\* the validation loop raises: some member resolves outside extract_dir
PathTraversal(file_list) ==
    \E i \in 1..Len(file_list) :
        ~InsideTargetDir(Abspath(JoinDir(file_list[i])))
\* f.lower().endswith(('.iso', '.img'))
IsIso(member) == Last(member) \in {"a.iso", "B.ISO", "b.img", "evil.iso"}
\* iso_files = [f for f in file_list if ...]
IsoFiles(file_list) == SelectSeq(file_list, IsIso)
\* where zip_ref.extract writes a member, relative to extract_dir: ZipFile
\* drops the "..", "." and empty segments of the member name
WrittenPath(member) == SelectSeq(member, LAMBDA x : x \notin {"..", "/"})
\* zip_ref.extractall(extract_dir)
RECURSIVE ExtractAll(_, _)
ExtractAll(file_list, d) ==
    IF file_list = <<>> THEN d
    ELSE ExtractAll(Tail(file_list),
                    DictPut(d, WrittenPath(Head(file_list)), "all"))

\* _decompress_bz2 / _decompress_gzip on the disk d: the new disk and the
\* returned path
DecompressStream(filepath, content, d) ==
    IF filepath \in DOMAIN d /\ content.ok
    THEN [disk |-> DictDel(DictPut(d, OutputPath(filepath), "all"), filepath),
          ret |-> OutputPath(filepath)]
    ELSE [disk |-> DictDel(d, OutputPath(filepath)), ret |-> NoPath]

\* _decompress_zip on the disk d: the new disk and the returned path
DecompressZip(filepath, content, d) ==
    LET file_list == content.members
        iso_files == IsoFiles(file_list)
    IN IF filepath \notin DOMAIN d \/ ~content.ok \/ PathTraversal(file_list)
       THEN [disk |-> d, ret |-> NoPath]
       ELSE IF iso_files # <<>>
            THEN [disk |-> DictDel(DictPut(d, WrittenPath(iso_files[1]),
                                           "all"), filepath),
                  ret |-> iso_files[1]]
            ELSE [disk |-> DictDel(ExtractAll(file_list, d), filepath),
                  ret |-> IF file_list # <<>> THEN file_list[1] ELSE NoPath]

\* _decompress_if_needed
DecompressIfNeeded(filepath, content, d) ==
    IF Expander(filepath) \in {"bz2", "gz"}
    THEN DecompressStream(filepath, content, d)
    ELSE IF Expander(filepath) = "zip"
         THEN DecompressZip(filepath, content, d)
         ELSE [disk |-> d, ret |-> NoPath]

VARIABLES
    download_queue,        \* queue.Queue: the items, FIFO
    unfinished_tasks,      \* queue.Queue.unfinished_tasks (put +1, task_done -1)
    active_downloads,      \* dict url -> identity of the per-job dict
    records,               \* heap: identity -> [filename, progress, total]
    completed,             \* set of URLs
    completed_urls,        \* set of URLs
    failed,                \* set of URLs
    retry_counts,          \* dict url -> int
    lock,                  \* holder of self.lock, NoWorker when free
    running,               \* self.running
    downloaded_files,      \* list of paths
    hash_verification,     \* dict path -> "True" | "False" | "None"
    failed_verifications,  \* list of paths
    disk,                  \* target_dir: path -> amount the file holds
    aria2c_installed,      \* what shutil.which('aria2c') would find
    aria2c_available,      \* TorrentDownloader._aria2c_available cache
    pc,                    \* per worker: position in _worker/_download_file
    url,                   \* per worker: the local url (<<>> when none)
    downloaded,            \* per worker: the local downloaded
    verification,          \* per worker: the local verification[0]
    final_path,            \* per worker: the local final_path / filepath
    delay,                 \* per worker: seconds of the time.sleep in progress
    waiter,                \* caller of wait_for_completion: idle|joining|returned
    submitted,             \* history: url -> number of add_download calls
    fetchPlan,             \* environment: url -> forced failures left, -1 = free
    snapshots,             \* the dict last returned by get_status, <<>> if none
    deleted,               \* what delete_failed_verifications last returned
    arg,                   \* argument of the helper call under study
    result,                \* what that call returned, <<>> before it
    transfer_status,       \* TransferManager.transfer_status
    files_to_transfer,     \* TransferManager.files_to_transfer
    temp_dir,              \* whether the staging directory temp_dir exists
    bulk,                  \* caller of bulk_transfer: idle|sizes|copy|copied
    returncode,            \* how the last scp ended: zero|nonzero|raised
    setup,                 \* position in the remote target setup
    password_attempt,      \* its local password_attempt
    auth_success,          \* its local auth_success
    ssh_password,          \* its local ssh_password: "None", "" or "pw"
    target_directory,      \* whether its target_directory is still set
    download_manager,      \* whether the download manager has been created
    tests,                 \* connection tests made since the target was opened
    check_lock,            \* TorrentDownloader._check_lock: holder, 0 if free
    caller,                \* per thread calling is_available: position, value
    lookups,               \* shutil.which('aria2c') calls made so far
    storages,              \* ProxmoxTarget._storages
    discover,              \* position of the discover_storages caller
    parsed,                \* its local storages list
    issued,                \* remote commands run by the current or last call
    discovered             \* what the last discover_storages call returned

toolVars == <<deleted, arg, result>>
transferVars == <<transfer_status, files_to_transfer, temp_dir, bulk,
                  returncode>>
setupVars == <<setup, password_attempt, auth_success, ssh_password,
               target_directory, download_manager, tests>>
availVars == <<check_lock, caller, lookups>>
proxVars == <<storages, discover, parsed, issued, discovered>>
remoteVars == <<transferVars, setupVars, availVars, proxVars>>
vars == <<download_queue, unfinished_tasks, active_downloads, records,
          completed, completed_urls, failed, retry_counts, lock, running,
          downloaded_files, hash_verification, failed_verifications, disk,
          aria2c_installed, aria2c_available, pc, url, downloaded,
          verification, final_path, delay, waiter, submitted, fetchPlan,
          snapshots, toolVars, remoteVars>>

coreVars == <<download_queue, unfinished_tasks, active_downloads, records,
              completed, completed_urls, failed, retry_counts, lock, running,
              downloaded_files, hash_verification, failed_verifications,
              disk, aria2c_installed, aria2c_available, pc, url, downloaded,
              verification, final_path, delay, waiter, submitted, fetchPlan,
              snapshots, toolVars>>
managerVars == <<active_downloads, records, completed, completed_urls, failed,
                 retry_counts, downloaded_files, hash_verification,
                 failed_verifications>>
queueVars == <<download_queue, unfinished_tasks>>
localVars == <<downloaded, verification, final_path, delay>>
envVars == <<aria2c_installed, fetchPlan>>
clientVars == <<waiter, submitted, snapshots>>

NoUrl == <<>>

\* TransferManager.__init__: tempfile.mkdtemp creates the staging directory
InitTransfer ==
    /\ transfer_status = "pending"
    /\ files_to_transfer = <<>>
    /\ temp_dir = TRUE
    /\ bulk = "idle"
    /\ returncode = "none"

\* the remote target setup has not begun
InitSetup ==
    /\ setup = "idle"
    /\ password_attempt = 0
    /\ auth_success = FALSE
    /\ ssh_password = "None"
    /\ target_directory = FALSE
    /\ download_manager = FALSE
    /\ tests = <<>>

\* threads that call TorrentDownloader.is_available
Callers == 1..NumWorkers
\* the class attributes of TorrentDownloader; no call is under way
InitAvail ==
    /\ check_lock = 0
    /\ caller = [c \in Callers |-> [pc |-> "idle", ret |-> "None"]]
    /\ lookups = 0

\* ProxmoxTarget.__init__
InitProxmox ==
    /\ storages = [cached |-> FALSE, list |-> <<>>]
    /\ discover = "idle"
    /\ parsed = <<>>
    /\ issued = 0
    /\ discovered = <<>>

InitRemote == InitTransfer /\ InitSetup /\ InitAvail /\ InitProxmox

\* DownloadManager.__init__
InitManagerWith(threads, urls) ==
    /\ download_queue = <<>>
    /\ unfinished_tasks = 0
    /\ active_downloads = EmptyDict
    /\ records = EmptyDict
    /\ completed = {}
    /\ completed_urls = {}
    /\ failed = {}
    /\ retry_counts = EmptyDict
    /\ lock = NoWorker
    /\ running = TRUE
    /\ downloaded_files = <<>>
    /\ hash_verification = EmptyDict
    /\ failed_verifications = <<>>
    /\ aria2c_available = "None"
    /\ pc = [w \in threads |-> "new"]
    /\ url = [w \in threads |-> NoUrl]
    /\ downloaded = [w \in threads |-> "none"]
    /\ verification = [w \in threads |-> "None"]
    /\ final_path = [w \in threads |-> NoPath]
    /\ delay = [w \in threads |-> 0]
    /\ waiter = "idle"
    /\ submitted = [u \in urls |-> 0]
    /\ snapshots = <<>>
    /\ deleted = <<>>

\* DownloadManager.__init__ with callers that submit the URLs of AllURLs
InitManagerFor(threads) == InitManagerWith(threads, AllURLs)

\* DownloadManager.__init__, and the max_workers threads of one start()
InitManager == InitManagerFor(Workers)

\* no helper call under study
NoCall == arg = <<>> /\ result = <<>>

Init ==
    /\ InitManager
    /\ InitRemote
    /\ NoCall
    /\ disk = EmptyDict
    /\ aria2c_installed \in BOOLEAN
    /\ fetchPlan = [u \in AllURLs |-> -1]

\* ------------------------------------------------------------------- heap
\* identities some dict still refers to: active_downloads, or the 'active'
\* dict of the last snapshot (dict(self.active_downloads) copies the outer
\* dict only, its values are the same objects)
Referenced(act, snaps) ==
    Range(act) \cup (IF snaps = <<>> THEN {} ELSE Range(snaps[1].active))
Collect(recs, act, snaps) ==
    [i \in DOMAIN recs \cap Referenced(act, snaps) |-> recs[i]]
NewId(u) ==
    IF <<u, 1>> \in Referenced(DictDel(active_downloads, u), snapshots)
    THEN <<u, 2>> ELSE <<u, 1>>

\* `if url in self.active_downloads: del self.active_downloads[url]`
Deactivate(u) ==
    /\ active_downloads' = DictDel(active_downloads, u)
    /\ records' = Collect(records, DictDel(active_downloads, u), snapshots)

\* active_downloads[url]['progress'] = n; active_downloads[url]['total'] = t
\* guarded by `if url in self.active_downloads`
SetProgress(u, n, t) ==
    /\ records' = IF u \in DOMAIN active_downloads
                  THEN [records EXCEPT ![active_downloads[u]] =
                            [@ EXCEPT !.progress = n, !.total = t]]
                  ELSE records
    /\ UNCHANGED active_downloads

\* --------------------------------------------------------------- _worker
\* variant: a start() that sets every thread of the pool going
StartsEveryThread(batch) ==
    /\ \A w \in batch : pc[w] = "new"
    /\ pc' = [w \in DOMAIN pc |-> "loop"]
    /\ UNCHANGED <<managerVars, queueVars, lock, running, disk,
                   aria2c_available, url, localVars, envVars, clientVars,
                   toolVars, remoteVars>>

\* start(): max_workers threads are created and begin their loop
StartBatch(batch) ==
    /\ \A w \in batch : pc[w] = "new"
    /\ pc' = [w \in DOMAIN pc |-> IF w \in batch THEN "loop" ELSE pc[w]]
    /\ UNCHANGED <<managerVars, queueVars, lock, running, disk,
                   aria2c_available, url, localVars, envVars, clientVars,
                   toolVars,
                   remoteVars>>

\* start() as the program calls it: once, after the manager is constructed
Start == StartBatch(Workers)

\* variant: a loop that does not look at self.running
WorkerLoopForever(w) ==
    /\ pc[w] = "loop"
    /\ pc' = [pc EXCEPT ![w] = "get"]
    /\ UNCHANGED <<managerVars, queueVars, lock, running, disk,
                   aria2c_available, url, localVars, envVars, clientVars,
                   toolVars,
                   remoteVars>>

\* `while self.running:`
WorkerLoop(w) ==
    /\ pc[w] = "loop"
    /\ pc' = [pc EXCEPT ![w] = IF running THEN "get" ELSE "exited"]
    /\ UNCHANGED <<managerVars, queueVars, lock, running, disk,
                   aria2c_available, url, localVars, envVars, clientVars,
                   toolVars,
                   remoteVars>>

\* `url = self.download_queue.get(timeout=0.5)` returning an item
WorkerGet(w) ==
    /\ pc[w] = "get"
    /\ download_queue # <<>>
    /\ url' = [url EXCEPT ![w] = Head(download_queue)]
    /\ download_queue' = Tail(download_queue)
    /\ pc' = [pc EXCEPT ![w] = "activate"]
    /\ UNCHANGED <<managerVars, unfinished_tasks, lock, running, disk,
                   aria2c_available, localVars, envVars, clientVars,
                   toolVars,
                   remoteVars>>

\* the get timing out: `except queue.Empty: continue`, and the loop test
\* the continue leads to
WorkerGetTimeout(w) ==
    /\ pc[w] = "get"
    /\ download_queue = <<>>
    /\ pc' = [pc EXCEPT ![w] = IF running THEN "get" ELSE "exited"]
    /\ UNCHANGED <<managerVars, queueVars, lock, running, disk,
                   aria2c_available, url, localVars, envVars, clientVars,
                   toolVars,
                   remoteVars>>

\* `with self.lock: self.active_downloads[url] = {...}`
WorkerActivate(w) ==
    /\ pc[w] = "activate"
    /\ lock = NoWorker
    /\ LET id == NewId(url[w])
           act == DictPut(active_downloads, url[w], id)
           rec == [filename |-> Filename(url[w]), progress |-> "none",
                   total |-> "none"]
       IN /\ active_downloads' = act
          /\ records' = Collect(DictPut(records, id, rec), act, snapshots)
    /\ pc' = [pc EXCEPT ![w] = "download"]
    /\ UNCHANGED <<completed, completed_urls, failed, retry_counts,
                   downloaded_files, hash_verification, failed_verifications,
                   queueVars, lock, running, disk, aria2c_available, url,
                   localVars, envVars, clientVars, toolVars,
                   remoteVars>>

\* the success branch of the try: completed, completed_urls, del active,
\* del retry_counts, all under the lock
WorkerComplete(w) ==
    /\ pc[w] = "complete"
    /\ lock = NoWorker
    /\ completed' = completed \cup {url[w]}
    /\ completed_urls' = completed_urls \cup {url[w]}
    /\ Deactivate(url[w])
    /\ retry_counts' = DictDel(retry_counts, url[w])
    /\ pc' = [pc EXCEPT ![w] = "task_done"]
    /\ final_path' = [final_path EXCEPT ![w] = NoPath]
    /\ verification' = [verification EXCEPT ![w] = "None"]
    /\ downloaded' = [downloaded EXCEPT ![w] = "none"]
    /\ UNCHANGED <<failed, downloaded_files, hash_verification,
                   failed_verifications, queueVars, lock, running, disk,
                   aria2c_available, url, delay, envVars, clientVars,
                   toolVars,
                   remoteVars>>

\* variant: a retry test that is off by one, `retry_count <= max_retries`
MayRetryInclusive(retry_count) == retry_count <= max_retries

\* variant: a linear backoff, `retry_count + 1` seconds
BackoffLinear(retry_count) == retry_count + 1

\* `retry_count < self.max_retries`
MayRetry(retry_count) == retry_count < max_retries
\* `2 ** retry_count`
BackoffDelay(retry_count) == Pow2(retry_count)

\* the except branch up to the sleep: takes the lock, reads the counter and
\* either bumps it and starts time.sleep with the lock held, or adds the URL
\* to failed, drops the active entry and releases the lock
WorkerExcept(w) ==
    /\ pc[w] = "except"
    /\ lock = NoWorker
    /\ LET retry_count == IF url[w] \in DOMAIN retry_counts
                          THEN retry_counts[url[w]] ELSE 0
       IN IF MayRetry(retry_count)
          THEN /\ retry_counts' = DictPut(retry_counts, url[w], retry_count + 1)
               /\ delay' = [delay EXCEPT ![w] = BackoffDelay(retry_count)]
               /\ lock' = w
               /\ pc' = [pc EXCEPT ![w] = "backoff"]
               /\ UNCHANGED <<failed, active_downloads, records>>
          ELSE /\ failed' = failed \cup {url[w]}
               /\ Deactivate(url[w])
               /\ pc' = [pc EXCEPT ![w] = "task_done"]
               /\ UNCHANGED <<retry_counts, delay, lock>>
    /\ downloaded' = [downloaded EXCEPT ![w] = "none"]
    /\ UNCHANGED <<completed, completed_urls, downloaded_files,
                   hash_verification, failed_verifications, queueVars,
                   running, disk, aria2c_available, url, verification,
                   final_path, envVars, clientVars, toolVars,
                   remoteVars>>

\* variant: the handler re-queues but never gives the lock back
WorkerRequeueHolding(w) ==
    /\ pc[w] = "backoff"
    /\ lock = w
    /\ download_queue' = Append(download_queue, url[w])
    /\ unfinished_tasks' = unfinished_tasks + 1
    /\ Deactivate(url[w])
    /\ delay' = [delay EXCEPT ![w] = 0]
    /\ pc' = [pc EXCEPT ![w] = "task_done"]
    /\ UNCHANGED <<completed, completed_urls, failed, retry_counts,
                   downloaded_files, hash_verification, failed_verifications,
                   lock, running, disk, aria2c_available, url, downloaded,
                   verification, final_path, envVars, clientVars, toolVars,
                   remoteVars>>

\* the sleep ends: `self.download_queue.put(url)`, del active, lock released
WorkerRequeue(w) ==
    /\ pc[w] = "backoff"
    /\ lock = w
    /\ download_queue' = Append(download_queue, url[w])
    /\ unfinished_tasks' = unfinished_tasks + 1
    /\ Deactivate(url[w])
    /\ lock' = NoWorker
    /\ delay' = [delay EXCEPT ![w] = 0]
    /\ pc' = [pc EXCEPT ![w] = "task_done"]
    /\ UNCHANGED <<completed, completed_urls, failed, retry_counts,
                   downloaded_files, hash_verification, failed_verifications,
                   running, disk, aria2c_available, url, downloaded,
                   verification, final_path, envVars, clientVars, toolVars,
                   remoteVars>>

\* `finally: self.download_queue.task_done()`
WorkerTaskDone(w) ==
    /\ pc[w] = "task_done"
    /\ unfinished_tasks' = unfinished_tasks - 1
    /\ url' = [url EXCEPT ![w] = NoUrl]
    /\ pc' = [pc EXCEPT ![w] = "loop"]
    /\ UNCHANGED <<managerVars, download_queue, lock, running, disk,
                   aria2c_available, localVars, envVars, clientVars,
                   toolVars,
                   remoteVars>>

\* -------------------------------------------------------- _download_file
\* one forced failure of fetchPlan is used up by an attempt that raises
UsePlan(u) == [fetchPlan EXCEPT ![u] = IF @ > 0 THEN @ - 1 ELSE @]
\* the network lets this attempt raise / lets it deliver
MayRaise(u) == fetchPlan[u] # 0
MayDeliver(u) == fetchPlan[u] <= 0

\* TorrentDownloader.is_available: the cached answer, looked up on first use
IsAvailable ==
    IF aria2c_available = "None"
    THEN (IF aria2c_installed THEN "True" ELSE "False")
    ELSE aria2c_available

\* variant: the existence test left out, every job fetches
NeverSkipsExisting(u) == FALSE

\* `if os.path.exists(local_path)`
SkipsExisting(u) == LocalPath(u) \in DOMAIN disk

\* entry of _download_file up to the branch taken: the torrent test with
\* is_available, the os.path.exists test, and requests.get with
\* raise_for_status, which raises or hands back a response
DownloadFileStart(w) ==
    /\ pc[w] = "download"
    /\ IF IsTorrentUrl(url[w])
       THEN /\ aria2c_available' = IsAvailable
            /\ pc' = [pc EXCEPT ![w] =
                        IF IsAvailable = "True" THEN "torrent" ELSE "except"]
            /\ UNCHANGED fetchPlan
       ELSE /\ UNCHANGED aria2c_available
            /\ IF SkipsExisting(url[w])
               THEN /\ pc' = [pc EXCEPT ![w] = "skip_existing"]
                    /\ UNCHANGED fetchPlan
               ELSE \/ /\ MayRaise(url[w])
                       /\ fetchPlan' = UsePlan(url[w])
                       /\ pc' = [pc EXCEPT ![w] = "except"]
                    \/ /\ pc' = [pc EXCEPT ![w] = "open"]
                       /\ UNCHANGED fetchPlan
    /\ UNCHANGED <<managerVars, queueVars, lock, running, disk, url,
                   localVars, aria2c_installed, clientVars, toolVars,
                   remoteVars>>

\* the existing-file branch: completed, completed_urls and downloaded_files
\* are updated under the lock, before the file is verified
SkipExisting(w) ==
    /\ pc[w] = "skip_existing"
    /\ lock = NoWorker
    /\ completed' = completed \cup {url[w]}
    /\ completed_urls' = completed_urls \cup {url[w]}
    /\ downloaded_files' = Append(downloaded_files, LocalPath(url[w]))
    /\ pc' = [pc EXCEPT ![w] = "verify_existing"]
    /\ UNCHANGED <<active_downloads, records, failed, retry_counts,
                   hash_verification, failed_verifications, queueVars, lock,
                   running, disk, aria2c_available, url, localVars, envVars,
                   clientVars, toolVars,
                   remoteVars>>

\* `with open(local_path, 'wb') as f:` creates or truncates the target
OpenTarget(w) ==
    /\ pc[w] = "open"
    /\ disk' = DictPut(disk, LocalPath(url[w]), "none")
    /\ downloaded' = [downloaded EXCEPT ![w] = "none"]
    /\ pc' = [pc EXCEPT ![w] = "stream"]
    /\ UNCHANGED <<managerVars, queueVars, lock, running, aria2c_available,
                   url, verification, final_path, delay, envVars, clientVars,
                   toolVars,
                   remoteVars>>

\* what a file holds after a writer that has written n in all wrote its
\* chunk at its own offset
Written(old, n) == IF old = "all" THEN "all" ELSE n

\* one round of the chunk loop: f.write(chunk), downloaded += len(chunk) and
\* the progress update under the lock; `last` says whether the body ends
\* with this chunk (the loop ends and the file is closed)
StreamChunk(w) ==
    /\ pc[w] = "stream"
    /\ MayDeliver(url[w])
    /\ lock = NoWorker
    /\ \E last \in BOOLEAN :
         LET p == LocalPath(url[w])
             n == IF last THEN "all" ELSE "some"
         IN /\ downloaded' = [downloaded EXCEPT ![w] = n]
            /\ disk' = IF p \in DOMAIN disk
                       THEN DictPut(disk, p, Written(disk[p], n)) ELSE disk
            /\ SetProgress(url[w], n, "all")
            /\ pc' = [pc EXCEPT ![w] = IF last THEN "verify" ELSE "stream"]
    /\ UNCHANGED <<completed, completed_urls, failed, retry_counts,
                   downloaded_files, hash_verification, failed_verifications,
                   queueVars, lock, running, aria2c_available, url,
                   verification, final_path, delay, envVars, clientVars,
                   toolVars,
                   remoteVars>>

\* iter_content raises in the middle of the body: the file stays as written
StreamFail(w) ==
    /\ pc[w] = "stream"
    /\ MayRaise(url[w])
    /\ fetchPlan' = UsePlan(url[w])
    /\ pc' = [pc EXCEPT ![w] = "except"]
    /\ UNCHANGED <<managerVars, queueVars, lock, running, disk,
                   aria2c_available, url, localVars, aria2c_installed,
                   clientVars, toolVars,
                   remoteVars>>

\* HashVerifier.verify_file: False for a missing file, None when no checksum
\* can be had (or verify_file raises), else the comparison of the digests
VerifyOutcomes(p) ==
    IF p \notin DOMAIN disk THEN {"False"}
    ELSE IF disk[p] # "all" THEN {"False", "None"}
    ELSE {"True", "False", "None"}

\* variant: `if not success` in place of `if success is False`, so a result
\* of None is listed as a failed verification too
VerifyHashFalsy(p, success) ==
    /\ lock = NoWorker
    /\ hash_verification' = DictPut(hash_verification, p, success)
    /\ failed_verifications' =
           IF success # "True" THEN Append(failed_verifications, p)
           ELSE failed_verifications

\* variant: the map holds the latest result only
VerifyHashReplaces(p, success) ==
    /\ lock = NoWorker
    /\ hash_verification' = DictPut(EmptyDict, p, success)
    /\ failed_verifications' =
           IF success = "False" THEN Append(failed_verifications, p)
           ELSE failed_verifications

\* variant: a False result is stored but not listed
VerifyHashUnlisted(p, success) ==
    /\ lock = NoWorker
    /\ hash_verification' = DictPut(hash_verification, p, success)
    /\ failed_verifications' = failed_verifications

\* _verify_hash: the result is stored under the lock, a False one is also
\* appended to failed_verifications
VerifyHash(p, success) ==
    /\ lock = NoWorker
    /\ hash_verification' = DictPut(hash_verification, p, success)
    /\ failed_verifications' =
           IF success = "False" THEN Append(failed_verifications, p)
           ELSE failed_verifications

\* `self._verify_hash(local_path, url)` of the existing-file branch
VerifyExisting(w) ==
    /\ pc[w] = "verify_existing"
    /\ \E success \in VerifyOutcomes(LocalPath(url[w])) :
           VerifyHash(LocalPath(url[w]), success)
    /\ pc' = [pc EXCEPT ![w] = "complete"]
    /\ UNCHANGED <<active_downloads, records, completed, completed_urls,
                   failed, retry_counts, downloaded_files, queueVars, lock,
                   running, disk, aria2c_available, url, localVars, envVars,
                   clientVars, toolVars,
                   remoteVars>>

\* `self._verify_hash(local_path, url)` after the body was written
VerifyDownloaded(w) ==
    /\ pc[w] = "verify"
    /\ \E success \in VerifyOutcomes(LocalPath(url[w])) :
           VerifyHash(LocalPath(url[w]), success)
    /\ pc' = [pc EXCEPT ![w] = "check"]
    /\ UNCHANGED <<active_downloads, records, completed, completed_urls,
                   failed, retry_counts, downloaded_files, queueVars, lock,
                   running, disk, aria2c_available, url, localVars, envVars,
                   clientVars, toolVars,
                   remoteVars>>

\* variant: the verification result ignored, every file is expanded
AlwaysExpands(recorded, seen) == TRUE

\* `verification is None or verification[0] is not False`, on what
\* hash_verification.get(local_path) returned
ProceedsToExpand(recorded, seen) == ~recorded \/ seen # "False"

\* final_path = local_path; verification = self.hash_verification.get(...)
\* and the test that decides whether _decompress_if_needed is called; for a
\* name no expander handles the call returns None at once and is part of
\* this step
ReadVerification(w) ==
    /\ pc[w] = "check"
    /\ LET p == LocalPath(url[w])
           recorded == p \in DOMAIN hash_verification
           seen == IF recorded THEN hash_verification[p] ELSE "None"
       IN /\ verification' = [verification EXCEPT ![w] = seen]
          /\ final_path' = [final_path EXCEPT ![w] = p]
          /\ pc' = [pc EXCEPT ![w] =
                      IF ProceedsToExpand(recorded, seen) /\ Expander(p) # "none"
                      THEN "decompress" ELSE "track"]
    /\ UNCHANGED <<managerVars, queueVars, lock, running, disk,
                   aria2c_available, url, downloaded, delay, envVars,
                   clientVars, toolVars,
                   remoteVars>>

\* decompressed = self._decompress_if_needed(local_path) for a name an
\* expander handles, on whatever the file holds, and
\* `if decompressed: final_path = decompressed`
Decompress(w) ==
    /\ pc[w] = "decompress"
    /\ \E content \in ArchiveContents(Expander(LocalPath(url[w]))) :
          LET r == DecompressIfNeeded(LocalPath(url[w]), content, disk)
          IN /\ disk' = r.disk
             /\ final_path' = IF r.ret # NoPath
                              THEN [final_path EXCEPT ![w] = r.ret]
                              ELSE final_path
    /\ pc' = [pc EXCEPT ![w] = "track"]
    /\ UNCHANGED <<managerVars, queueVars, lock, running, aria2c_available,
                   url, downloaded, verification, delay, envVars, clientVars,
                   toolVars,
                   remoteVars>>

\* `with self.lock: self.downloaded_files.append(final_path)`
TrackDownloaded(w) ==
    /\ pc[w] = "track"
    /\ lock = NoWorker
    /\ downloaded_files' = Append(downloaded_files, final_path[w])
    /\ pc' = [pc EXCEPT ![w] = "complete"]
    /\ UNCHANGED <<active_downloads, records, completed, completed_urls,
                   failed, retry_counts, hash_verification,
                   failed_verifications, queueVars, lock, running, disk,
                   aria2c_available, url, localVars, envVars, clientVars,
                   toolVars,
                   remoteVars>>

\* ------------------------------------------------------ _download_torrent
\* downloader.download returning: aria2c exited with 0, the file is in the
\* target directory, the progress callback has run for each output line
TorrentDownload(w) ==
    /\ pc[w] = "torrent"
    /\ MayDeliver(url[w])
    /\ lock = NoWorker
    /\ disk' = DictPut(disk, TorrentPath(url[w]), "all")
    /\ SetProgress(url[w], "all", "all")
    /\ final_path' = [final_path EXCEPT ![w] = TorrentPath(url[w])]
    /\ pc' = [pc EXCEPT ![w] = "verify_torrent"]
    /\ UNCHANGED <<completed, completed_urls, failed, retry_counts,
                   downloaded_files, hash_verification, failed_verifications,
                   queueVars, lock, running, aria2c_available, url,
                   downloaded, verification, delay, envVars, clientVars,
                   toolVars,
                   remoteVars>>

\* downloader.download raising (non-zero exit, file not found), re-raised
\* as RuntimeError for the worker
TorrentFail(w) ==
    /\ pc[w] = "torrent"
    /\ MayRaise(url[w])
    /\ fetchPlan' = UsePlan(url[w])
    /\ pc' = [pc EXCEPT ![w] = "except"]
    /\ UNCHANGED <<managerVars, queueVars, lock, running, disk,
                   aria2c_available, url, localVars, aria2c_installed,
                   clientVars, toolVars,
                   remoteVars>>

\* `self._verify_hash(filepath, url)` of _download_torrent
VerifyTorrent(w) ==
    /\ pc[w] = "verify_torrent"
    /\ \E success \in VerifyOutcomes(final_path[w]) :
           VerifyHash(final_path[w], success)
    /\ pc' = [pc EXCEPT ![w] = "track_torrent"]
    /\ UNCHANGED <<active_downloads, records, completed, completed_urls,
                   failed, retry_counts, downloaded_files, queueVars, lock,
                   running, disk, aria2c_available, url, localVars, envVars,
                   clientVars, toolVars,
                   remoteVars>>

\* `with self.lock: self.downloaded_files.append(filepath)`
TrackTorrent(w) ==
    /\ pc[w] = "track_torrent"
    /\ lock = NoWorker
    /\ downloaded_files' = Append(downloaded_files, final_path[w])
    /\ pc' = [pc EXCEPT ![w] = "complete"]
    /\ UNCHANGED <<active_downloads, records, completed, completed_urls,
                   failed, retry_counts, hash_verification,
                   failed_verifications, queueVars, lock, running, disk,
                   aria2c_available, url, localVars, envVars, clientVars,
                   toolVars,
                   remoteVars>>

\* ---------------------------------------------------------------- callers
RECURSIVE SumOver(_, _)
SumOver(f, S) ==
    IF S = {} THEN 0
    ELSE LET x == CHOOSE y \in S : TRUE IN f[x] + SumOver(f, S \ {x})
\* add_download calls made so far
Submitted == SumOver(submitted, AllURLs)

\* add_download(url): download_queue.put(url)
AddDownload(u) ==
    /\ Submitted < MaxSubmits
    /\ download_queue' = Append(download_queue, u)
    /\ unfinished_tasks' = unfinished_tasks + 1
    /\ submitted' = [submitted EXCEPT ![u] = @ + 1]
    /\ UNCHANGED <<managerVars, lock, running, disk, aria2c_available, pc,
                   url, localVars, envVars, waiter, snapshots, toolVars,
                   remoteVars>>

\* stop(): the flag is cleared; the joins give up after their timeout
Stop ==
    /\ running
    /\ running' = FALSE
    /\ UNCHANGED <<managerVars, queueVars, lock, disk, aria2c_available, pc,
                   url, localVars, envVars, clientVars, toolVars,
                   remoteVars>>

\* wait_for_completion() is entered: download_queue.join() starts waiting
WaitForCompletionCall ==
    /\ waiter \in {"idle", "returned"}
    /\ waiter' = "joining"
    /\ UNCHANGED <<managerVars, queueVars, lock, running, disk,
                   aria2c_available, pc, url, localVars, envVars, submitted,
                   snapshots, toolVars,
                   remoteVars>>

\* variant: a join that polls the queue for emptiness
JoinPollsEmpty == download_queue = <<>>

\* Queue.join(): `while self.unfinished_tasks: self.all_tasks_done.wait()`
JoinMayReturn == unfinished_tasks = 0

\* download_queue.join() returns, and with it wait_for_completion
WaitForCompletionReturn ==
    /\ waiter = "joining"
    /\ JoinMayReturn
    /\ waiter' = "returned"
    /\ UNCHANGED <<managerVars, queueVars, lock, running, disk,
                   aria2c_available, pc, url, localVars, envVars, submitted,
                   snapshots, toolVars,
                   remoteVars>>

\* the dict get_status builds under the lock
Status ==
    [active |-> active_downloads,
     completed |-> Cardinality(completed),
     completed_urls |-> completed_urls,
     failed |-> Cardinality(failed),
     retry_counts |-> retry_counts,
     queued |-> Len(download_queue),
     downloaded_files |-> downloaded_files,
     is_remote |-> FALSE,
     hash_verification |-> hash_verification,
     failed_verifications |-> failed_verifications]

\* get_status(): the caller keeps the returned dict; a per-job dict that
\* only the previous snapshot referred to is garbage from here on
GetStatus ==
    /\ lock = NoWorker
    /\ snapshots' = <<Status>>
    /\ records' = Collect(records, active_downloads, <<Status>>)
    /\ UNCHANGED <<active_downloads, completed, completed_urls, failed,
                   retry_counts, downloaded_files, hash_verification,
                   failed_verifications, queueVars, lock, running, disk,
                   aria2c_available, pc, url, localVars, envVars, waiter,
                   submitted, toolVars,
                   remoteVars>>

\* what a caller reads through the snapshot it holds: the per-job dicts are
\* reached through their identities
SnapshotView ==
    IF snapshots = <<>> THEN <<>>
    ELSE <<[snapshots[1] EXCEPT
              !.active = [u \in DOMAIN snapshots[1].active |->
                             records[snapshots[1].active[u]]]]>>

\* a caller writes into the snapshot it holds:
\* status['active'][u]['progress'] = 0
MutateSnapshot(u) ==
    /\ snapshots # <<>>
    /\ u \in DOMAIN snapshots[1].active
    /\ records' = [records EXCEPT ![snapshots[1].active[u]].progress = "none"]
    /\ UNCHANGED <<active_downloads, completed, completed_urls, failed,
                   retry_counts, downloaded_files, hash_verification,
                   failed_verifications, queueVars, lock, running, disk,
                   aria2c_available, pc, url, localVars, envVars, clientVars,
                   toolVars,
                   remoteVars>>

\* list.remove(x): the first occurrence is taken out
RECURSIVE RemoveFirst(_, _)
RemoveFirst(s, x) ==
    IF s = <<>> THEN <<>>
    ELSE IF Head(s) = x THEN Tail(s)
    ELSE <<Head(s)>> \o RemoveFirst(Tail(s), x)

\* the loop of delete_failed_verifications over the listed paths: a path
\* that exists is removed from the disk, appended to deleted and, if it is
\* in downloaded_files, removed from it once
RECURSIVE DeleteLoop(_, _, _, _)
DeleteLoop(paths, files, listed, done) ==
    IF paths = <<>>
    THEN [disk |-> files, downloaded_files |-> listed, deleted |-> done]
    ELSE LET filepath == Head(paths)
         IN IF filepath \in DOMAIN files
            THEN DeleteLoop(Tail(paths), DictDel(files, filepath),
                            IF filepath \in Range(listed)
                            THEN RemoveFirst(listed, filepath) ELSE listed,
                            Append(done, filepath))
            ELSE DeleteLoop(Tail(paths), files, listed, done)

\* delete_failed_verifications(), the whole call under the lock
DeleteFailedVerifications ==
    /\ lock = NoWorker
    /\ LET r == DeleteLoop(failed_verifications, disk, downloaded_files, <<>>)
       IN /\ disk' = r.disk
          /\ downloaded_files' = r.downloaded_files
          /\ deleted' = r.deleted
    /\ failed_verifications' = <<>>
    /\ UNCHANGED <<download_queue, unfinished_tasks, active_downloads,
                   records, completed, completed_urls, failed, retry_counts,
                   lock, running, hash_verification, aria2c_available, pc,
                   url, localVars, envVars, clientVars, arg, result,
                   remoteVars>>

\* --------------------------------------------- HashVerifier.parse_hash_file
\* A line of a checksum file is a sequence of tokens: a digest (a run of 64
\* hex digits, "d1", "d2", or "D1" for d1 in upper case), a blank " ", one of
\* "*", "(", ")", "=", "#", "./", the algorithm name "SHA256", or a file name.
Digests == {"d1", "d2", "D1"}
\* every run of hex digits a line may start or end with: the digests and
\* runs of 6, 32, 96 and 128 hex digits
HexRuns == Digests \cup {"h6", "h32", "h96", "h128"}
\* len() of a run of hex digits
HexLen(t) ==
    CASE t = "h6" -> 6
      [] t = "h32" -> 32
      [] t = "h96" -> 96
      [] t = "h128" -> 128
      [] t = "g32" -> 32
      [] t = "g128" -> 128
      [] OTHER -> 64
\* ([a-fA-F0-9]{32}(?:[a-fA-F0-9]{32})?(?:[a-fA-F0-9]{64})?) followed by
\* \s: the group takes a whole run of n hex digits
DigestGroup(n) == \E a \in {0, 1}, b \in {0, 1} : n = 32 + 32 * a + 64 * b
\* the line token t is matched by that group
IsDigestToken(t) == t \in HexRuns /\ DigestGroup(HexLen(t))
Names == {"ubuntu.iso", "debian.iso"}

\* str.lower()
LowerTok(t) == IF t = "D1" THEN "d1" ELSE t
LowerSeq(s) == [i \in 1..Len(s) |-> LowerTok(s[i])]

\* str.strip(): blanks taken off both ends
RECURSIVE LStrip(_)
LStrip(s) == IF s # <<>> /\ Head(s) = " " THEN LStrip(Tail(s)) ELSE s
RECURSIVE RStrip(_)
RStrip(s) == IF s # <<>> /\ Last(s) = " " THEN RStrip(Front(s)) ELSE s
Strip(s) == RStrip(LStrip(s))

\* str.lstrip('./')
RECURSIVE LStripDotSlash(_)
LStripDotSlash(s) ==
    IF s # <<>> /\ Head(s) = "./" THEN LStripDotSlash(Tail(s)) ELSE s

\* the number of blanks of s from position i on (what \s+ takes)
RECURSIVE Blanks(_, _)
Blanks(s, i) == IF i <= Len(s) /\ s[i] = " " THEN 1 + Blanks(s, i + 1) ELSE 0

\* the tail of s from position i
From(s, i) == SubSeq(s, i, Len(s))

NoMatch == <<>>

\* re.match(r'(<hex>)\s+\*?(.+)$', line): <<hash, fname>> or NoMatch
Format1(line) ==
    IF line = <<>> \/ ~IsDigestToken(Head(line)) \/ Blanks(line, 2) = 0
    THEN NoMatch
    ELSE LET rest == From(line, 2 + Blanks(line, 2))
         IN IF rest = <<>> THEN NoMatch
            ELSE IF Head(rest) = "*" /\ Len(rest) > 1
                 THEN <<Head(line), Tail(rest)>>
                 ELSE <<Head(line), rest>>

\* re.match(r'(<hex>)\s+\((.+)\)$', line)
Format2(line) ==
    IF line = <<>> \/ ~IsDigestToken(Head(line)) \/ Blanks(line, 2) = 0
    THEN NoMatch
    ELSE LET rest == From(line, 2 + Blanks(line, 2))
         IN IF Len(rest) >= 3 /\ Head(rest) = "(" /\ Last(rest) = ")"
            THEN <<Head(line), SubSeq(rest, 2, Len(rest) - 1)>>
            ELSE NoMatch

\* the index of the ")" that `\)\s+=\s+<hex>$` ends the name at, 0 if none
CloseOfBsd(rest) ==
    LET ok(i) == /\ rest[i] = ")"
                 /\ Blanks(rest, i + 1) > 0
                 /\ LET e == i + 1 + Blanks(rest, i + 1)
                    IN /\ e <= Len(rest) /\ rest[e] = "="
                       /\ Blanks(rest, e + 1) > 0
                       /\ e + 1 + Blanks(rest, e + 1) = Len(rest)
                       /\ Last(rest) \in HexRuns
        found == {i \in 2..Len(rest) : ok(i)}
    IN IF found = {} THEN 0 ELSE CHOOSE i \in found : \A j \in found : j <= i

\* re.match(r'(?:SHA256|SHA512|MD5)\s+\((.+)\)\s+=\s+([a-fA-F0-9]+)$', line)
\* with the groups swapped: <<hash, fname>> or NoMatch
Format3(line) ==
    IF line = <<>> \/ Head(line) # "SHA256" \/ Blanks(line, 2) = 0
    THEN NoMatch
    ELSE LET rest == From(line, 2 + Blanks(line, 2))
         IN IF rest = <<>> \/ Head(rest) # "(" \/ CloseOfBsd(rest) <= 2
            THEN NoMatch
            ELSE <<Last(rest), SubSeq(rest, 2, CloseOfBsd(rest) - 1)>>

\* the formats in the order the loop body tries them
MatchLine(line) ==
    IF Format1(line) # NoMatch THEN Format1(line)
    ELSE IF Format2(line) # NoMatch THEN Format2(line)
    ELSE Format3(line)

\* hashes[fname] = hash_val on a dict kept as a list of <<key, value>>
PairPut(pairs, k, v) ==
    IF \E i \in 1..Len(pairs) : pairs[i][1] = k
    THEN [i \in 1..Len(pairs) |->
             IF pairs[i][1] = k THEN <<k, v>> ELSE pairs[i]]
    ELSE Append(pairs, <<k, v>>)

\* the loop over the lines of the content
RECURSIVE ParseLines(_, _)
ParseLines(lines, hashes) ==
    IF lines = <<>> THEN hashes
    ELSE LET line == Strip(Head(lines))
         IN IF line = <<>> \/ Head(line) = "#" \/ MatchLine(line) = NoMatch
            THEN ParseLines(Tail(lines), hashes)
            ELSE ParseLines(Tail(lines),
                     PairPut(hashes,
                             LStripDotSlash(Strip(MatchLine(line)[2])),
                             LowerTok(MatchLine(line)[1])))

\* the lookup of filename: exact, then (the same for a bare name) basename,
\* then the first key equal to it ignoring case; "None" if there is none
Lookup(hashes, filename) ==
    LET exact == {i \in 1..Len(hashes) : hashes[i][1] = filename}
        nocase == {i \in 1..Len(hashes) :
                      LowerSeq(hashes[i][1]) = LowerSeq(filename)}
    IN IF exact # {} THEN hashes[CHOOSE i \in exact : TRUE][2]
       ELSE IF nocase # {}
            THEN hashes[CHOOSE i \in nocase : \A j \in nocase : i <= j][2]
            ELSE "None"

\* parse_hash_file(content, filename)
ParseHashFile(content, filename) == Lookup(ParseLines(content, <<>>), filename)

\* the four layouts of a line for the file name and the digest d
Layout(k, name, d) ==
    CASE k = 1 -> <<d, " ", "*", name>>
      [] k = 2 -> <<d, " ", " ", name>>
      [] k = 3 -> <<d, " ", "(", name, ")">>
      [] OTHER -> <<"SHA256", " ", "(", name, ")", " ", "=", " ", d>>

\* the lines a checksum file is made of here
HashLines ==
    {Layout(k, name, d) : k \in 1..4, name \in Names, d \in Digests}
        \cup {<<"#", " ", "ubuntu.iso">>}
        \cup {Layout(2, "debian.iso", t) : t \in HexRuns \ Digests}

\* the checksum files of 1 to MaxLines lines
Contents == UNION {[1..n -> HashLines] : n \in 1..MaxLines}

\* the state outside the helper call under study
restVars == <<managerVars, queueVars, lock, running, disk, aria2c_available,
              pc, url, localVars, envVars, clientVars, deleted, remoteVars>>

InitParse ==
    /\ InitManager
    /\ InitRemote
    /\ disk = EmptyDict
    /\ aria2c_installed = FALSE
    /\ fetchPlan = [u \in AllURLs |-> -1]
    /\ arg \in Contents
    /\ result = <<>>

\* the call parse_hash_file(content, 'ubuntu.iso')
ParseHashFileCall ==
    /\ result = <<>>
    /\ result' = <<ParseHashFile(arg, <<"ubuntu.iso">>)>>
    /\ UNCHANGED <<restVars, arg>>

SpecParse == InitParse /\ [][ParseHashFileCall]_vars

\* the call parse_hash_file(content): the whole dict is returned
ParseHashFileDictCall ==
    /\ result = <<>>
    /\ result' = <<ParseLines(arg, <<>>)>>
    /\ UNCHANGED <<restVars, arg>>

SpecParseDict == InitParse /\ [][ParseHashFileDictCall]_vars

\* ------------------------------------------------ HashVerifier.verify_file
\* what the file to verify may hold
FileContents == {"x", "y"}
\* variant: the algorithm is SHA-256 whatever the length
DetectAlwaysSha256(hash_str) == "sha256"
\* _detect_hash_algorithm
DetectHashAlgorithm(hash_str) ==
    IF HexLen(hash_str) = 32 THEN "md5"
    ELSE IF HexLen(hash_str) = 64 THEN "sha256"
    ELSE IF HexLen(hash_str) = 128 THEN "sha512"
    ELSE "sha256"
\* compute_hash(filepath, algorithm) of a file holding c: the hex runs "h32",
\* "d1" and "h128" are the MD5, SHA-256 and SHA-512 digests of "x", and
\* "g32", "d2" and "g128" those of "y"
ComputeHash(c, algorithm) ==
    IF algorithm = "sha512" THEN (IF c = "x" THEN "h128" ELSE "g128")
    ELSE IF algorithm = "md5" THEN (IF c = "x" THEN "h32" ELSE "g32")
    ELSE (IF c = "x" THEN "d1" ELSE "d2")
\* truth value of an Optional[str]
Truthy(x) == x \notin {"None", ""}

\* verify_file(filepath, expected_hash, iso_url, fedora_hash) for the file
\* ubuntu.iso; a describes the arguments and what the file system and the
\* network answer. The result tells the success value, whether get_hash_url
\* and fetch_hash_file were called, and the algorithm used.
VerifyFile(a) ==
    LET given == IF Truthy(a.fedora_hash) THEN a.fedora_hash
                 ELSE a.expected_hash
        derives == ~Truthy(given) /\ a.iso_url
        fetches == derives /\ a.hash_url
        expected_hash ==
            IF fetches /\ a.fetch_ok
            THEN ParseHashFile(a.hash_content, <<"ubuntu.iso">>)
            ELSE given
        normal == LowerTok(expected_hash)
        algorithm == DetectHashAlgorithm(normal)
        out(success, alg) ==
            [success |-> success, derived |-> derives, fetched |-> fetches,
             algorithm |-> alg]
    IN IF ~a.exists THEN [success |-> "False", derived |-> FALSE,
                          fetched |-> FALSE, algorithm |-> "None"]
       ELSE IF ~Truthy(expected_hash) THEN out("None", "sha256")
       ELSE IF ~a.readable THEN out("False", algorithm)
       ELSE IF ComputeHash(a.content, algorithm) = normal
            THEN out("True", algorithm)
            ELSE out("False", algorithm)

\* the arguments and answers of one verify_file call: the checksum file
\* fetched, if one is, has one line
VerifyArgs ==
    [exists : BOOLEAN, readable : BOOLEAN, content : FileContents,
     expected_hash : HexRuns \cup {"None", ""},
     fedora_hash : {"None", "d1", "h128"},
     iso_url : BOOLEAN, hash_url : BOOLEAN, fetch_ok : BOOLEAN,
     hash_content : [1..1 -> {Layout(k, "ubuntu.iso", d) :
                                  k \in 1..4, d \in {"d1", "D1", "d2"}}
                              \cup {Layout(2, "debian.iso", "d1"),
                                    Layout(2, "ubuntu.iso", "h32"),
                                    Layout(2, "ubuntu.iso", "h96")}]]

InitVerify ==
    /\ InitManager
    /\ InitRemote
    /\ disk = EmptyDict
    /\ aria2c_installed = FALSE
    /\ fetchPlan = [u \in AllURLs |-> -1]
    /\ arg \in VerifyArgs
    /\ result = <<>>

\* the call verify_file(...)
VerifyFileCall ==
    /\ result = <<>>
    /\ result' = <<VerifyFile(arg)>>
    /\ UNCHANGED <<restVars, arg>>

SpecVerify == InitVerify /\ [][VerifyFileCall]_vars

\* -------------------------------------------- the expanders on their own
\* compressed files in the target directory, one per expander
ExpandPaths == {<<"a", "zip">>, <<"a", "iso", "bz2">>, <<"a", "img", "gz">>}

InitExpand ==
    /\ InitManager
    /\ InitRemote
    /\ aria2c_installed = FALSE
    /\ fetchPlan = [u \in AllURLs |-> -1]
    /\ \E p \in ExpandPaths :
          /\ disk = DictPut(EmptyDict, p, "all")
          /\ arg \in {[path |-> p, content |-> c] :
                         c \in ArchiveContents(Expander(p))}
    /\ result = <<>>

\* the call _decompress_if_needed(filepath)
DecompressIfNeededCall ==
    /\ result = <<>>
    /\ LET r == DecompressIfNeeded(arg.path, arg.content, disk)
       IN /\ disk' = r.disk
          /\ result' = <<r.ret>>
    /\ UNCHANGED <<managerVars, queueVars, lock, running, aria2c_available,
                   pc, url, localVars, envVars, clientVars, deleted, arg, remoteVars>>

SpecExpand == InitExpand /\ [][DecompressIfNeededCall]_vars

\* -------------------------------------------------------- TransferManager
\* the files callers stage in temp_dir
StagedPaths == {LocalPath(UrlA), OutputPath(LocalPath(UrlB))}

\* a file is written into the staging directory
StageFile(p) ==
    /\ temp_dir
    /\ p \notin DOMAIN disk
    /\ disk' = DictPut(disk, p, "all")
    /\ UNCHANGED <<managerVars, queueVars, lock, running, aria2c_available,
                   pc, url, localVars, envVars, clientVars, toolVars,
                   remoteVars>>

\* add_file(filepath)
AddFile(filepath) ==
    /\ files_to_transfer' = IF filepath \in Range(files_to_transfer)
                            THEN files_to_transfer
                            ELSE Append(files_to_transfer, filepath)
    /\ UNCHANGED <<transfer_status, temp_dir, bulk, returncode, setupVars,
                   availVars, proxVars>>

\* add_file(filepath) called by the owner of the TransferManager
AddFileCall(filepath) ==
    /\ filepath \notin Range(files_to_transfer)
    /\ AddFile(filepath)
    /\ UNCHANGED <<managerVars, queueVars, lock, running, disk,
                   aria2c_available, pc, url, localVars, envVars, clientVars,
                   toolVars>>

\* bulk_transfer() up to the listing: `if not self.files_to_transfer: return
\* True`, else the status is set
BulkTransferEnter ==
    /\ bulk = "idle"
    /\ IF files_to_transfer = <<>>
       THEN /\ result' = <<"True">>
            /\ UNCHANGED <<transfer_status, bulk>>
       ELSE /\ transfer_status' = "transferring"
            /\ bulk' = "sizes"
            /\ result' = <<>>
    /\ UNCHANGED <<files_to_transfer, temp_dir, returncode, deleted, arg,
                   setupVars, availVars, proxVars>>

\* the listing loop: os.path.getsize of every file, which raises out of
\* bulk_transfer for a file that does not exist
BulkSizes ==
    /\ bulk = "sizes"
    /\ IF \A i \in 1..Len(files_to_transfer) :
             files_to_transfer[i] \in DOMAIN disk
       THEN bulk' = "copy" /\ UNCHANGED result
       ELSE bulk' = "idle" /\ result' = <<"raised">>
    /\ UNCHANGED <<transfer_status, files_to_transfer, temp_dir, returncode,
                   deleted, arg, setupVars, availVars, proxVars>>

\* subprocess.run(scp_cmd) ends: exit status 0, another status, or an
\* exception (no scp or sshpass binary)
ScpEnds ==
    /\ bulk = "copy"
    /\ returncode' \in {"zero", "nonzero", "raised"}
    /\ bulk' = "copied"
    /\ UNCHANGED <<transfer_status, files_to_transfer, temp_dir, toolVars,
                   setupVars, availVars, proxVars>>

\* variant: the staging directory is removed however the copy ended
RemovesStagingAlways(rc) == TRUE
\* shutil.rmtree(self.temp_dir) is reached for this outcome of the copy
RemovesStaging(rc) == rc = "zero"

\* the rest of bulk_transfer: the status is set, and after exit status 0
\* the staging directory is removed
BulkFinish ==
    /\ bulk = "copied"
    /\ bulk' = "idle"
    /\ transfer_status' = IF returncode = "zero" THEN "completed"
                          ELSE "failed"
    /\ result' = <<IF returncode = "zero" THEN "True" ELSE "False">>
    /\ IF RemovesStaging(returncode)
       THEN temp_dir' = FALSE /\ disk' = EmptyDict
       ELSE UNCHANGED <<temp_dir, disk>>
    /\ UNCHANGED <<files_to_transfer, returncode, deleted, arg, setupVars,
                   availVars, proxVars>>

\* what no step of bulk_transfer touches, the caller's state apart
BulkFrame ==
    UNCHANGED <<managerVars, queueVars, lock, running, aria2c_available, pc,
                url, localVars, envVars>>

\* one step of the body of bulk_transfer()
BulkTransferBody ==
    \/ BulkTransferEnter /\ BulkFrame /\ UNCHANGED disk
    \/ BulkSizes /\ BulkFrame /\ UNCHANGED disk
    \/ ScpEnds /\ BulkFrame /\ UNCHANGED disk
    \/ BulkFinish /\ BulkFrame

\* one step of a bulk_transfer() call by the owner of the TransferManager
BulkTransferStep == BulkTransferBody /\ UNCHANGED clientVars

\* cleanup(): the staging directory, if it exists, is removed
Cleanup ==
    /\ temp_dir
    /\ temp_dir' = FALSE
    /\ disk' = EmptyDict
    /\ UNCHANGED <<managerVars, queueVars, lock, running, aria2c_available,
                   pc, url, localVars, envVars, clientVars, toolVars,
                   transfer_status, files_to_transfer, bulk, returncode,
                   setupVars, availVars, proxVars>>

\* a TransferManager whose owner stages files, lists them, transfers in
\* bulk and cleans up, in any order
InitStaging ==
    /\ InitManager
    /\ InitRemote
    /\ NoCall
    /\ disk = EmptyDict
    /\ aria2c_installed = FALSE
    /\ fetchPlan = [u \in AllURLs |-> -1]

NextTransfer ==
    \/ \E p \in StagedPaths : StageFile(p) \/ AddFileCall(p)
    \/ BulkTransferStep
    \/ Cleanup

SpecTransfer == InitStaging /\ [][NextTransfer]_vars

\* ----------------------------------------- CombinedDownloadTransferManager
\* the add_file calls of get_status, one per downloaded file
RECURSIVE AddFiles(_, _)
AddFiles(paths, files) ==
    IF paths = <<>> THEN files
    ELSE AddFiles(Tail(paths),
                  IF Head(paths) \in Range(files) THEN files
                  ELSE Append(files, Head(paths)))

\* get_status(): the download manager's snapshot is taken under its lock
\* and every downloaded file is handed to add_file; the caller drops the
\* dict it gets
CombinedGetStatus ==
    /\ lock = NoWorker
    /\ waiter = "idle"
    /\ files_to_transfer' = AddFiles(downloaded_files, files_to_transfer)
    /\ files_to_transfer' # files_to_transfer
    /\ UNCHANGED <<managerVars, queueVars, lock, running, disk,
                   aria2c_available, pc, url, localVars, envVars, clientVars,
                   toolVars, transfer_status, temp_dir, bulk, returncode,
                   setupVars, availVars, proxVars>>

\* wait_and_transfer() is called once every URL of the batch has been
\* submitted: download_manager.wait_for_completion() starts waiting
WaitAndTransferCall ==
    /\ submitted[UrlA] = 1 /\ submitted[UrlB] = 1
    /\ waiter = "idle"
    /\ WaitForCompletionCall

\* wait_and_transfer(): self.download_manager.stop()
WaitAndTransferStop ==
    /\ waiter = "returned"
    /\ running' = FALSE
    /\ waiter' = "stopped"
    /\ UNCHANGED <<managerVars, queueVars, lock, disk, aria2c_available, pc,
                   url, localVars, envVars, submitted, snapshots, toolVars,
                   remoteVars>>

\* wait_and_transfer(): return self.transfer_manager.bulk_transfer()
WaitAndTransferBulk ==
    /\ waiter = "stopped"
    /\ BulkTransferBody
    /\ waiter' = IF bulk' = "idle" THEN "done" ELSE "stopped"
    /\ UNCHANGED <<submitted, snapshots>>

\* ------------------------------------------------- the remote target setup
\* distroget.py: is_remote branch of the target selection.  `tests` records
\* every call of test_connection / test_connection_with_password made since
\* the target was opened, as <<kind, outcome>>.
SetupFrame == UNCHANGED <<coreVars, transferVars, availVars, proxVars>>

\* what a connection test can do: exit status 0, another exit status, or an
\* exception of subprocess.run (TimeoutExpired, missing binary)
TestOutcomes == {"ok", "fail", "raise"}

\* a remote target_directory was chosen and there is no download manager
OpenRemoteTarget ==
    /\ setup \in {"idle", "aborted"}
    /\ ~download_manager
    /\ target_directory' = TRUE
    /\ ssh_password' = "None"
    /\ tests' = <<>>
    /\ setup' = "key_test"
    /\ UNCHANGED <<password_attempt, auth_success, download_manager>>
    /\ SetupFrame

\* if not transfer_mgr.test_connection(): ... the locals of the retry loop
TestConnection ==
    /\ setup = "key_test"
    /\ \E o \in TestOutcomes :
        /\ tests' = Append(tests, <<"key", o>>)
        /\ CASE o = "ok" ->
                  /\ setup' = "mkdir"
                  /\ UNCHANGED <<password_attempt, auth_success>>
             [] o = "fail" ->
                  /\ setup' = "loop"
                  /\ password_attempt' = 0
                  /\ auth_success' = FALSE
             [] OTHER ->
                  /\ setup' = "raised"
                  /\ UNCHANGED <<password_attempt, auth_success>>
    /\ UNCHANGED <<ssh_password, target_directory, download_manager>>
    /\ SetupFrame

\* variant: a loop that only counts the attempts
LoopIgnoresSuccess(attempt, success) ==
    attempt < max_password_attempts

\* while password_attempt < max_password_attempts and not auth_success
LoopContinues(attempt, success) ==
    attempt < max_password_attempts /\ ~success

\* the loop test, and password_attempt += 1 when the body is entered
PasswordLoop ==
    /\ setup = "loop"
    /\ IF LoopContinues(password_attempt, auth_success)
       THEN /\ password_attempt' = password_attempt + 1
            /\ setup' = "prompt"
       ELSE /\ setup' = "after_loop"
            /\ UNCHANGED password_attempt
    /\ UNCHANGED <<auth_success, ssh_password, target_directory,
                   download_manager, tests>>
    /\ SetupFrame

\* ssh_password = show_password_popup(...): None when the operator cancels
ShowPasswordPopup ==
    /\ setup = "prompt"
    /\ \E p \in {"None", "", "pw"} :
        /\ ssh_password' = p
        /\ IF p = "None"
           THEN /\ target_directory' = FALSE
                /\ setup' = "after_loop"
           ELSE /\ setup' = "which"
                /\ UNCHANGED target_directory
    /\ UNCHANGED <<password_attempt, auth_success, download_manager, tests>>
    /\ SetupFrame

\* if not shutil.which('sshpass'): target_directory = None; break
WhichSshpass ==
    /\ setup = "which"
    /\ \E installed \in BOOLEAN :
        IF installed
        THEN /\ setup' = "pw_test"
             /\ UNCHANGED target_directory
        ELSE /\ target_directory' = FALSE
             /\ setup' = "after_loop"
    /\ UNCHANGED <<password_attempt, auth_success, ssh_password,
                   download_manager, tests>>
    /\ SetupFrame

\* what test_connection_with_password can do with this password: an empty
\* password returns False before any command is run; so does a sshpass
\* that has gone missing since the caller looked for it
PasswordOutcomes(password) ==
    IF password = "" THEN {"fail"} ELSE TestOutcomes

\* transfer_mgr.ssh_password = ssh_password;
\* if transfer_mgr.test_connection_with_password(): ... else: ...
TestConnectionWithPassword ==
    /\ setup = "pw_test"
    /\ \E o \in PasswordOutcomes(ssh_password) :
        /\ tests' = Append(tests, <<"password", o>>)
        /\ CASE o = "ok" ->
                  /\ auth_success' = TRUE
                  /\ setup' = "loop"
                  /\ UNCHANGED ssh_password
             [] o = "fail" ->
                  /\ ssh_password' = "None"
                  /\ setup' = "loop"
                  /\ UNCHANGED auth_success
             [] OTHER ->
                  /\ setup' = "raised"
                  /\ UNCHANGED <<auth_success, ssh_password>>
    /\ UNCHANGED <<password_attempt, target_directory, download_manager>>
    /\ SetupFrame

\* if not auth_success: target_directory = None; continue
AfterPasswordLoop ==
    /\ setup = "after_loop"
    /\ IF ~auth_success
       THEN /\ target_directory' = FALSE
            /\ setup' = "aborted"
       ELSE /\ setup' = "mkdir"
            /\ UNCHANGED target_directory
    /\ UNCHANGED <<password_attempt, auth_success, ssh_password,
                   download_manager, tests>>
    /\ SetupFrame

\* if target_directory: create_remote_directory() or give the target up;
\* download_manager = CombinedDownloadTransferManager(...)
CreateRemoteDirectory ==
    /\ setup = "mkdir"
    /\ IF target_directory
       THEN \E o \in TestOutcomes :
              CASE o = "ok" ->
                     /\ download_manager' = TRUE
                     /\ setup' = "created"
                     /\ UNCHANGED target_directory
                [] o = "fail" ->
                     /\ target_directory' = FALSE
                     /\ setup' = "aborted"
                     /\ UNCHANGED download_manager
                [] OTHER ->
                     /\ setup' = "raised"
                     /\ UNCHANGED <<target_directory, download_manager>>
       ELSE /\ setup' = "aborted"
            /\ UNCHANGED <<target_directory, download_manager>>
    /\ UNCHANGED <<password_attempt, auth_success, ssh_password, tests>>
    /\ SetupFrame

NextSetup ==
    \/ OpenRemoteTarget
    \/ TestConnection
    \/ PasswordLoop
    \/ ShowPasswordPopup
    \/ WhichSshpass
    \/ TestConnectionWithPassword
    \/ AfterPasswordLoop
    \/ CreateRemoteDirectory

SpecSetup == InitStaging /\ [][NextSetup]_vars

\* ------------------------------------------ TorrentDownloader.is_available
\* is_available called from several threads, statement by statement
AvailFrame ==
    UNCHANGED <<managerVars, queueVars, lock, running, disk, pc, url,
                localVars, fetchPlan, clientVars, toolVars, transferVars,
                setupVars, proxVars>>

\* shutil.which('aria2c') is not None, as the class stores it
WhichAria2c == IF aria2c_installed THEN "True" ELSE "False"

\* the binary is installed or removed while the process runs
InstallOrRemoveAria2c ==
    /\ aria2c_installed' = ~aria2c_installed
    /\ UNCHANGED <<aria2c_available, availVars>>
    /\ AvailFrame

\* a thread calls TorrentDownloader.is_available()
IsAvailableCall(c) ==
    /\ caller[c].pc = "idle"
    /\ caller' = [caller EXCEPT ![c].pc = "enter"]
    /\ UNCHANGED <<check_lock, lookups, aria2c_installed, aria2c_available>>
    /\ AvailFrame

\* variant: the cache tested and filled without the lock
CheckLockIgnored(holder) == TRUE

\* threading.Lock: acquired only when no thread holds it
CheckLockFree(holder) == holder = 0

\* with cls._check_lock:
AcquireCheckLock(c) ==
    /\ caller[c].pc = "enter"
    /\ CheckLockFree(check_lock)
    /\ check_lock' = c
    /\ caller' = [caller EXCEPT ![c].pc = "test"]
    /\ UNCHANGED <<lookups, aria2c_installed, aria2c_available>>
    /\ AvailFrame

\* if cls._aria2c_available is None:
TestCached(c) ==
    /\ caller[c].pc = "test"
    /\ caller' = [caller EXCEPT ![c].pc =
                     IF aria2c_available = "None" THEN "which" ELSE "return"]
    /\ UNCHANGED <<check_lock, lookups, aria2c_installed, aria2c_available>>
    /\ AvailFrame

\* cls._aria2c_available = shutil.which('aria2c') is not None
LookupAria2c(c) ==
    /\ caller[c].pc = "which"
    /\ aria2c_available' = WhichAria2c
    /\ lookups' = lookups + 1
    /\ caller' = [caller EXCEPT ![c].pc = "return"]
    /\ UNCHANGED <<check_lock, aria2c_installed>>
    /\ AvailFrame

\* return cls._aria2c_available, leaving the with block
IsAvailableReturn(c) ==
    /\ caller[c].pc = "return"
    /\ caller' = [caller EXCEPT ![c] = [pc |-> "idle",
                                        ret |-> aria2c_available]]
    /\ check_lock' = IF check_lock = c THEN 0 ELSE check_lock
    /\ UNCHANGED <<lookups, aria2c_installed, aria2c_available>>
    /\ AvailFrame

NextAvail ==
    \/ InstallOrRemoveAria2c
    \/ \E c \in Callers :
         \/ IsAvailableCall(c)
         \/ AcquireCheckLock(c)
         \/ TestCached(c)
         \/ LookupAria2c(c)
         \/ IsAvailableReturn(c)

SpecAvail == InitStaging /\ [][NextAvail]_vars

\* ------------------------------------------ ProxmoxTarget.discover_storages
ProxFrame == UNCHANGED <<coreVars, transferVars, setupVars, availVars>>

\* lines of `pvesm status`: the storage name and the number of fields
StatusHeader == [name |-> "Name", parts |-> 7]
StatusRows == {[name |-> "local", parts |-> 6], [name |-> "nfs", parts |-> 4],
               [name |-> "junk", parts |-> 3]}
StatusOutputs ==
    {<<StatusHeader>> \o rows :
        rows \in UNION {[1..n -> StatusRows] : n \in 0..MaxLines}}

\* what _get_storage_content returns: the listed content types, or its
\* default when the command fails or raises
ContentLists == {<<"iso">>, <<"images">>, <<"iso", "vztmpl">>}
NoContent == <<>>

\* for line in lines[1:]: if len(parts) >= 4: storages.append(storage)
RECURSIVE ParseRows(_)
ParseRows(lines) ==
    IF lines = <<>> THEN <<>>
    ELSE (IF Head(lines).parts >= 4
          THEN <<[name |-> Head(lines).name, content |-> NoContent]>>
          ELSE <<>>) \o ParseRows(Tail(lines))
ParseStatus(stdout) == ParseRows(Tail(stdout))

\* variant: `if self._storages:` in place of the test against None
CacheHitTruthy(s) == s.cached /\ s.list # <<>>

\* if self._storages is not None
CacheHit(s) == s.cached

\* discover_storages() is called
DiscoverStoragesCall ==
    /\ discover = "idle"
    /\ issued' = 0
    /\ parsed' = <<>>
    /\ discover' = IF CacheHit(storages) THEN "cached" ELSE "status"
    /\ UNCHANGED <<storages, discovered>>
    /\ ProxFrame

\* return self._storages
DiscoverCached ==
    /\ discover = "cached"
    /\ discovered' = storages.list
    /\ discover' = "idle"
    /\ UNCHANGED <<storages, parsed, issued>>
    /\ ProxFrame

\* subprocess.run(pvesm status): an exception or a non-zero exit returns
\* [], otherwise the output is parsed
PvesmStatus ==
    /\ discover = "status"
    /\ issued' = issued + 1
    /\ \/ /\ discovered' = <<>>
          /\ discover' = "idle"
          /\ UNCHANGED parsed
       \/ \E stdout \in StatusOutputs :
            /\ parsed' = ParseStatus(stdout)
            /\ discover' = "content"
            /\ UNCHANGED discovered
    /\ UNCHANGED storages
    /\ ProxFrame

\* storages still without their content types
Pending == {i \in DOMAIN parsed : parsed[i].content = NoContent}

\* storage['content'] = self._get_storage_content(storage['name'])
GetStorageContent ==
    /\ discover = "content"
    /\ Pending # {}
    /\ LET i == CHOOSE j \in Pending : \A k \in Pending : j <= k
       IN \E c \in ContentLists :
            parsed' = [parsed EXCEPT ![i].content = c]
    /\ issued' = issued + 1
    /\ UNCHANGED <<storages, discover, discovered>>
    /\ ProxFrame

\* self._storages = storages; return storages
DiscoverStore ==
    /\ discover = "content"
    /\ Pending = {}
    /\ storages' = [cached |-> TRUE, list |-> parsed]
    /\ discovered' = parsed
    /\ discover' = "idle"
    /\ UNCHANGED <<parsed, issued>>
    /\ ProxFrame

NextProxmox ==
    \/ DiscoverStoragesCall
    \/ DiscoverCached
    \/ PvesmStatus
    \/ GetStorageContent
    \/ DiscoverStore

SpecProxmox == InitStaging /\ [][NextProxmox]_vars

\* --------------------------------------------------------- specifications
\* the steps of _worker around _download_file
LoopStep(w) ==
    \/ WorkerLoop(w)
    \/ WorkerGet(w)
    \/ WorkerGetTimeout(w)
    \/ WorkerActivate(w)
    \/ DownloadFileStart(w)
    \/ WorkerComplete(w)
    \/ WorkerExcept(w)
    \/ WorkerRequeue(w)
    \/ WorkerTaskDone(w)

\* the steps of _download_file for a URL fetched over HTTP
HttpStep(w) ==
    \/ SkipExisting(w)
    \/ VerifyExisting(w)
    \/ OpenTarget(w)
    \/ StreamChunk(w)
    \/ StreamFail(w)
    \/ VerifyDownloaded(w)
    \/ ReadVerification(w)
    \/ Decompress(w)
    \/ TrackDownloaded(w)

\* the steps of _download_torrent
TorrentStep(w) ==
    \/ TorrentDownload(w)
    \/ TorrentFail(w)
    \/ VerifyTorrent(w)
    \/ TrackTorrent(w)

WorkerStep(w) == LoopStep(w) \/ HttpStep(w) \/ TorrentStep(w)

Next ==
    \/ Start
    \/ \E u \in URLs : AddDownload(u)
    \/ \E w \in Workers : WorkerStep(w)

\* the running manager, callers submitting any of URLs, any network
Spec == Init /\ [][Next]_vars

\* the running manager with callers that submit the HTTP URL only
InitHttp ==
    /\ InitManager
    /\ InitRemote
    /\ NoCall
    /\ disk = EmptyDict
    /\ aria2c_installed = FALSE
    /\ fetchPlan = [u \in AllURLs |-> -1]

NextHttp ==
    \/ Start
    \/ AddDownload(UrlB)
    \/ \E w \in Workers : LoopStep(w) \/ HttpStep(w)

SpecHttp == InitHttp /\ [][NextHttp]_vars

\* the running manager with callers that submit the torrent URL only
NextTorrent ==
    \/ Start
    \/ AddDownload(UrlT)
    \/ \E w \in Workers : LoopStep(w) \/ TorrentStep(w)

SpecTorrent == Init /\ [][NextTorrent]_vars

\* the torrent manager with a caller that may call stop() at any time
NextStop ==
    \/ NextTorrent
    \/ Stop

SpecStop == Init /\ [][NextStop]_vars

\* the HTTP manager with a caller that may call
\* delete_failed_verifications() at any time
NextDelete ==
    \/ NextHttp
    \/ DeleteFailedVerifications

SpecDelete == InitHttp /\ [][NextDelete]_vars

\* the HTTP manager with a caller that takes status snapshots and writes
\* into the one it holds
NextStatus ==
    \/ NextHttp
    \/ GetStatus
    \/ MutateSnapshot(UrlB)

SpecStatus == InitHttp /\ [][NextStatus]_vars

\* the end-to-end scenario: three URLs enqueued once each, UrlB's fetch
\* succeeds at once, UrlT's fails twice and then succeeds, UrlA's fails 4
\* times; wait_for_completion is called after the three add_download calls
ScenarioPlan == (UrlB :> 0) @@ (UrlT :> 2) @@ (UrlA :> 4)

InitScenario ==
    /\ InitManager
    /\ InitRemote
    /\ NoCall
    /\ disk = EmptyDict
    /\ aria2c_installed = TRUE
    /\ fetchPlan = ScenarioPlan

AddDownloadOnce(u) ==
    /\ submitted[u] = 0
    /\ download_queue' = Append(download_queue, u)
    /\ unfinished_tasks' = unfinished_tasks + 1
    /\ submitted' = [submitted EXCEPT ![u] = @ + 1]
    /\ UNCHANGED <<managerVars, lock, running, disk, aria2c_available, pc,
                   url, localVars, envVars, waiter, snapshots, toolVars,
                   remoteVars>>

WaitAfterEnqueue ==
    /\ \A u \in AllURLs : submitted[u] = 1
    /\ waiter = "idle"
    /\ WaitForCompletionCall

NextScenario ==
    \/ Start
    \/ \E u \in AllURLs : AddDownloadOnce(u)
    \/ WaitAfterEnqueue
    \/ WaitForCompletionReturn
    \/ \E w \in Workers : WorkerStep(w)

SpecScenario == InitScenario /\ [][NextScenario]_vars

\* a batch of two HTTP URLs submitted once each, UrlA's fetch raising on
\* every attempt and UrlB's succeeding at once, with every worker thread
\* scheduled again and again: a worker that can take a step eventually
\* takes one
BatchPlan == (UrlA :> 4) @@ (UrlB :> 0) @@ (UrlT :> -1)

InitBatch ==
    /\ InitManager
    /\ InitRemote
    /\ NoCall
    /\ disk = EmptyDict
    /\ aria2c_installed = FALSE
    /\ fetchPlan = BatchPlan

NextBatch ==
    \/ Start
    \/ AddDownloadOnce(UrlA)
    \/ AddDownloadOnce(UrlB)
    \/ \E w \in Workers : LoopStep(w) \/ HttpStep(w)

SpecFair ==
    /\ InitBatch
    /\ [][NextBatch]_vars
    /\ \A w \in Workers : WF_vars(LoopStep(w) \/ HttpStep(w))

\* the same batch with UrlB's fetch raising once before it succeeds, under
\* any scheduling: one job is retried and completes, the other is retried
\* until it fails
JobsPlan == (UrlA :> 4) @@ (UrlB :> 1) @@ (UrlT :> -1)

InitJobs ==
    /\ InitManager
    /\ InitRemote
    /\ NoCall
    /\ disk = EmptyDict
    /\ aria2c_installed = FALSE
    /\ fetchPlan = JobsPlan

SpecJobs == InitJobs /\ [][NextBatch]_vars

\* a manager whose owner may call start() a second time, and stop() at any
\* time: every start() adds max_workers threads to self.workers.  UrlA is
\* in target_dir already, every fetch of UrlB raises and aria2c is missing.
Threads == 1..(NumWorkers + NumWorkers)
Batch(k) == ((k - 1) * NumWorkers + 1)..(k * NumWorkers)
Started(k) == \A w \in Batch(k) : pc[w] # "new"
StartCall ==
    \/ StartBatch(Batch(1))
    \/ Started(1) /\ StartBatch(Batch(2))

PoolPlan == (UrlA :> 0) @@ (UrlB :> max_retries + 1) @@ (UrlT :> 0)
PoolDisk == DictPut(EmptyDict, LocalPath(UrlA), "all")

InitPool ==
    /\ InitManagerFor(Threads)
    /\ InitRemote
    /\ NoCall
    /\ disk = PoolDisk
    /\ aria2c_installed = FALSE
    /\ fetchPlan = PoolPlan

NextPool ==
    \/ StartCall
    \/ \E u \in AllURLs : AddDownloadOnce(u)
    \/ Stop
    \/ \E w \in Threads :
         LoopStep(w) \/ SkipExisting(w) \/ VerifyExisting(w)

SpecPool == InitPool /\ [][NextPool]_vars

\* the batch of SpecJobs on a combined manager whose owner polls
\* get_status while the downloads run and then calls wait_and_transfer
NextCombined ==
    \/ NextBatch
    \/ CombinedGetStatus
    \/ WaitAndTransferCall
    \/ WaitForCompletionReturn
    \/ WaitAndTransferStop
    \/ WaitAndTransferBulk

SpecCombined == InitJobs /\ [][NextCombined]_vars

\* the HTTP manager with callers that submit each of UrlA and UrlB at most
\* once and may call delete_failed_verifications() at any time
NextOnce ==
    \/ Start
    \/ AddDownloadOnce(UrlA)
    \/ AddDownloadOnce(UrlB)
    \/ \E w \in Workers : LoopStep(w) \/ HttpStep(w)
    \/ DeleteFailedVerifications

SpecOnce == InitHttp /\ [][NextOnce]_vars

\* a batch of two HTTP URLs, UrlA's fetch succeeding at once and UrlB's
\* raising once, with a caller that takes status snapshots and may call
\* delete_failed_verifications() at any time
AuditPlan == (UrlA :> 0) @@ (UrlB :> 1) @@ (UrlT :> -1)

InitAudit ==
    /\ InitManager
    /\ InitRemote
    /\ NoCall
    /\ disk = EmptyDict
    /\ aria2c_installed = FALSE
    /\ fetchPlan = AuditPlan

NextAudit ==
    \/ NextBatch
    \/ GetStatus
    \/ DeleteFailedVerifications

SpecAudit == InitAudit /\ [][NextAudit]_vars

\* the HTTP manager with a caller that submits UrlB and, once that job has
\* ended in completed or failed, submits it again
AddDownloadAgain(u) ==
    /\ u \in completed \cup failed
    /\ u \notin Range(download_queue)
    /\ \A w \in Workers : pc[w] \in {"new", "loop", "get", "exited"}
    /\ AddDownload(u)

NextAgain ==
    \/ Start
    \/ AddDownloadOnce(UrlB)
    \/ AddDownloadAgain(UrlB)
    \/ \E w \in Workers : LoopStep(w) \/ HttpStep(w)

SpecAgain == InitHttp /\ [][NextAgain]_vars

\* the HTTP manager with a caller that submits once a URL whose name ends
\* in .zip; the fetch may raise, and the archive that arrives may hold any
\* members
UrlZ == <<"z", "zip">>

InitZip ==
    /\ InitManagerWith(Workers, {UrlZ})
    /\ InitRemote
    /\ NoCall
    /\ disk = EmptyDict
    /\ aria2c_installed = FALSE
    /\ fetchPlan = (UrlZ :> -1)

NextZip ==
    \/ Start
    \/ AddDownloadOnce(UrlZ)
    \/ \E w \in Workers : LoopStep(w) \/ HttpStep(w)

SpecZip == InitZip /\ [][NextZip]_vars

\* the batch of SpecFair with a caller that may call stop() at any time and
\* that calls wait_for_completion(); every worker thread is scheduled again
\* and again, and so is the thread blocked in download_queue.join(), which
\* is notified whenever the count of unfinished tasks reaches 0
NextHalt ==
    \/ NextBatch
    \/ Stop
    \/ WaitForCompletionCall
    \/ WaitForCompletionReturn

SpecHalt ==
    /\ InitBatch
    /\ [][NextHalt]_vars
    /\ \A w \in Workers : WF_vars(LoopStep(w) \/ HttpStep(w))
    /\ WF_vars(WaitForCompletionReturn)

\* ----------------------------------------------------------------- claims
\* the counter `self.retry_counts.get(url, 0)` would return
RetryCountOf(u) == IF u \in DOMAIN retry_counts THEN retry_counts[u] ELSE 0
\* worker w is inside _download_file
Fetching(w) ==
    pc[w] \in {"download", "skip_existing", "verify_existing", "open",
               "stream", "verify", "check", "decompress", "track",
               "torrent", "verify_torrent", "track_torrent"}
\* worker w is between taking a job from the queue and its task_done
Processing(w) == pc[w] \notin {"new", "loop", "get", "exited"}
\* worker w takes a step
Steps(w) == pc'[w] # pc[w]

\* C1: in the scenario the job whose every attempt raises (UrlA, 4 forced
\* failures) is re-queued with the counter going 1, 2, 3 and sleeps of 1, 2
\* and 4 seconds, each re-queue putting the URL back on the queue; a failure
\* met with the counter at 3 adds the URL to failed instead; the URL is in
\* failed only after its 4 attempts have raised, with the counter at 3, and
\* no counter ever exceeds 3.
C1_RetryBound ==
    /\ [](\A u \in DOMAIN retry_counts : retry_counts[u] \in 1..3)
    /\ [](UrlA \in failed => fetchPlan[UrlA] = 0 /\ RetryCountOf(UrlA) = 3)
    /\ [][\A w \in Workers :
            (pc[w] = "except" /\ Steps(w)) =>
               IF RetryCountOf(url[w]) < 3
               THEN /\ pc'[w] = "backoff"
                    /\ retry_counts'[url[w]] = RetryCountOf(url[w]) + 1
                    /\ delay'[w] = CASE RetryCountOf(url[w]) = 0 -> 1
                                     [] RetryCountOf(url[w]) = 1 -> 2
                                     [] OTHER -> 4
                    /\ failed' = failed
               ELSE /\ pc'[w] = "task_done"
                    /\ failed' = failed \cup {url[w]}
                    /\ download_queue' = download_queue
                    /\ retry_counts' = retry_counts]_vars
    /\ [][\A w \in Workers :
            (pc[w] = "backoff" /\ Steps(w)) =>
               download_queue' = Append(download_queue, url[w])]_vars

\* C1 witness: the always-failing job has been marked Failed after its
\* third retry
C1_Witness == UrlA \in failed /\ RetryCountOf(UrlA) = 3 /\ fetchPlan[UrlA] = 0

\* C2: in the scenario, when wait_for_completion has returned and the
\* scripted failures have all happened (UrlT's two, UrlA's four), the
\* snapshot reports completed = 2 and failed = 1; and the attempt of UrlT
\* that succeeds runs with its retry counter at exactly 2.
C2_EndToEnd ==
    /\ []((waiter = "returned" /\ fetchPlan[UrlT] = 0 /\ fetchPlan[UrlA] = 0)
            => (Status.completed = 2 /\ Status.failed = 1))
    /\ [][\A w \in Workers :
            (url[w] = UrlT /\ pc[w] = "complete" /\ Steps(w)) =>
               RetryCountOf(UrlT) = 2]_vars

\* C2 witness: drained, UrlB and UrlT completed, UrlA failed
C2_Witness ==
    /\ waiter = "returned"
    /\ fetchPlan[UrlT] = 0 /\ fetchPlan[UrlA] = 0
    /\ completed = {UrlB, UrlT}
    /\ failed = {UrlA}

\* C3: _decompress_if_needed is called only once the file has an entry in
\* hash_verification and only if the entry the job read after verifying is
\* not False; a job that read False leaves the disk alone, keeps the
\* compressed path as its final path and appends that path to
\* downloaded_files.
C3_VerifyBeforeExpand ==
    /\ [][\A w \in Workers :
            (pc[w] = "decompress" /\ Steps(w)) =>
               /\ LocalPath(url[w]) \in DOMAIN hash_verification
               /\ verification[w] # "False"]_vars
    /\ [][\A w \in Workers :
            (pc[w] = "check" /\ Steps(w)
               /\ LocalPath(url[w]) \in DOMAIN hash_verification
               /\ hash_verification[LocalPath(url[w])] = "False") =>
               /\ pc'[w] = "track"
               /\ final_path'[w] = LocalPath(url[w])
               /\ disk' = disk]_vars
    /\ [][\A w \in Workers :
            (pc[w] = "track" /\ Steps(w) /\ verification[w] = "False") =>
               /\ disk' = disk
               /\ downloaded_files' =
                      Append(downloaded_files, LocalPath(url[w]))]_vars

\* C3 witness: a job whose verification failed is about to record the
\* compressed file, which is still on disk
C3_Witness ==
    \E w \in Workers :
        /\ pc[w] = "track"
        /\ verification[w] = "False"
        /\ Expander(LocalPath(url[w])) = "bz2"
        /\ final_path[w] \in DOMAIN disk

\* the file whose verification belongs to the job of worker w
JobFile(w) ==
    IF IsTorrentUrl(url[w]) THEN TorrentPath(url[w]) ELSE LocalPath(url[w])

\* C4: whenever a job appends a path to downloaded_files, the verification
\* result of the job's file is already recorded in hash_verification.
C4_VerifiedBeforeListed ==
    [][\A w \in Workers :
         (Steps(w) /\ downloaded_files' # downloaded_files) =>
            JobFile(w) \in DOMAIN hash_verification]_vars

\* C5: no path appears more than once in downloaded_files.
C5_ListedOnce ==
    \A i, j \in 1..Len(downloaded_files) :
        downloaded_files[i] = downloaded_files[j] => i = j

\* C6: a job that finds its target file present takes the existing-file
\* branch instead of issuing the request, and on that branch the URL is
\* added to completed, a verification result for the file is recorded, and
\* no step of the job changes the disk.
C6_ExistingFile ==
    /\ [][\A w \in Workers :
            (pc[w] = "download" /\ Steps(w) /\ ~IsTorrentUrl(url[w])
               /\ LocalPath(url[w]) \in DOMAIN disk) =>
               pc'[w] = "skip_existing"]_vars
    /\ [][\A w \in Workers :
            (pc[w] = "skip_existing" /\ Steps(w)) =>
               /\ pc'[w] = "verify_existing"
               /\ url[w] \in completed'
               /\ disk' = disk]_vars
    /\ [][\A w \in Workers :
            (pc[w] = "verify_existing" /\ Steps(w)) =>
               /\ pc'[w] = "complete"
               /\ LocalPath(url[w]) \in DOMAIN hash_verification'
               /\ disk' = disk]_vars

\* C6 witness: a job on the existing-file branch has verified the file it
\* found and is about to finish
C6_Witness ==
    \E w \in Workers :
        /\ pc[w] = "complete"
        /\ final_path[w] = NoPath
        /\ url[w] \in completed
        /\ LocalPath(url[w]) \in DOMAIN hash_verification
        /\ LocalPath(url[w]) \in DOMAIN disk

\* C7: every snapshot get_status returns has completed + failed + queued +
\* number of active entries equal to the number of add_download calls made.
C7_SnapshotCounts ==
    [][snapshots' # snapshots =>
         snapshots'[1].completed + snapshots'[1].failed + snapshots'[1].queued
           + Cardinality(DOMAIN snapshots'[1].active) = Submitted]_vars

\* C8: no two workers are inside _download_file for the same URL at the
\* same time, whatever add_download calls were made.
C8_OneFetchPerUrl ==
    \A w, v \in Workers :
        (w # v /\ Fetching(w) /\ Fetching(v)) => url[w] # url[v]

\* the queue is empty, no worker holds a job, nothing is active and every
\* submitted URL is in completed or failed
Drained ==
    /\ download_queue = <<>>
    /\ \A w \in Workers : ~Processing(w)
    /\ DOMAIN active_downloads = {}
    /\ \A u \in AllURLs : submitted[u] > 0 => u \in completed \cup failed

\* C9: whenever wait_for_completion returns, the manager is drained.
C9_ReturnsDrained ==
    [][(waiter = "joining" /\ waiter' = "returned") => Drained]_vars

\* C9 witness: wait_for_completion has returned after a job went through
\* its retries and failed
C9_Witness == waiter = "returned" /\ UrlA \in failed /\ completed # {}

\* what the manager itself holds under 'active'
ManagerActive ==
    [u \in DOMAIN active_downloads |-> records[active_downloads[u]]]

\* C10: a step of a worker never changes what a snapshot already returned
\* shows, and a caller writing into its snapshot never changes what the
\* manager holds.
C10_SnapshotDetached ==
    /\ [][(snapshots # <<>> /\ \E w \in Workers : Steps(w)) =>
             SnapshotView' = SnapshotView]_vars
    /\ [][(snapshots # <<>> /\ snapshots' = snapshots /\ pc' = pc
             /\ active_downloads' = active_downloads) =>
             ManagerActive' = ManagerActive]_vars

\* the queue only grew at its tail
QueueKept ==
    /\ Len(download_queue') >= Len(download_queue)
    /\ SubSeq(download_queue', 1, Len(download_queue)) = download_queue

\* C11 as stated: once self.running is False no worker takes a job off the
\* queue.
C11_NoDequeueAfterStop ==
    [][\A w \in Workers :
         (~running /\ pc[w] = "get" /\ Steps(w)) =>
            download_queue' = download_queue]_vars

\* C11 amended: the flag is never set again; a worker that tests the flag
\* after stop() exits without calling get, an exited worker stays exited,
\* and only a worker that was already inside download_queue.get() takes a
\* job after stop(), so each worker starts at most one more job; once every
\* worker has exited, what is queued stays queued.
C11_StopBetweenUnits ==
    /\ [][~running => ~running']_vars
    /\ [][\A w \in Workers :
            (~running /\ pc[w] = "loop" /\ Steps(w)) =>
               (pc'[w] = "exited" /\ download_queue' = download_queue)]_vars
    /\ [][\A w \in Workers : pc[w] = "exited" => pc'[w] = "exited"]_vars
    /\ [][(~running /\ download_queue' # download_queue /\ ~QueueKept) =>
             \E w \in Workers : pc[w] = "get" /\ pc'[w] = "activate"]_vars
    /\ [][(\A w \in Workers : pc[w] = "exited") => QueueKept]_vars

\* C11 witness: after stop() every worker has exited and a URL re-queued
\* for a retry is still on the queue
C11_Witness ==
    /\ ~running
    /\ \A w \in Workers : pc[w] = "exited"
    /\ download_queue # <<>>
    /\ \E u \in DOMAIN retry_counts : u = Head(download_queue)

\* C12: a torrent URL whose attempt raised because aria2c is not available
\* goes to failed at once: the worker's handler does not increment the retry
\* counter, does not sleep and does not re-queue.
C12_TorrentFailsFast ==
    [][\A w \in Workers :
         (pc[w] = "except" /\ Steps(w) /\ IsTorrentUrl(url[w])
            /\ aria2c_available = "False") =>
            /\ pc'[w] = "task_done"
            /\ failed' = failed \cup {url[w]}
            /\ retry_counts' = retry_counts
            /\ download_queue' = download_queue]_vars

\* the path a finished job has put in downloaded_files
ListedPath(w) ==
    IF final_path[w] = NoPath THEN LocalPath(url[w]) ELSE final_path[w]

\* C15: a verification that ends with None (no checksum to be had, or
\* verify_file raising) lists nothing in failed_verifications, touches no
\* retry counter and does not re-queue; after the verification the job
\* cannot fail any more, and it finishes in completed with its file in
\* downloaded_files.
C15_UnknownStillCompletes ==
    /\ [][\A w \in Workers :
            (pc[w] \in {"verify", "verify_existing", "verify_torrent"}
               /\ Steps(w) /\ hash_verification'[JobFile(w)] = "None") =>
               /\ failed_verifications' = failed_verifications
               /\ retry_counts' = retry_counts
               /\ download_queue' = download_queue
               /\ pc'[w] \in {"check", "complete", "track_torrent"}]_vars
    /\ [][\A w \in Workers :
            (pc[w] \in {"check", "decompress", "track", "track_torrent"}
               /\ Steps(w)) =>
               pc'[w] \in {"decompress", "track", "complete"}]_vars
    /\ [][\A w \in Workers :
            (pc[w] = "complete" /\ Steps(w)) =>
               /\ pc'[w] = "task_done"
               /\ url[w] \in completed'
               /\ failed' = failed
               /\ ListedPath(w) \in Range(downloaded_files')]_vars

\* C15 witness: a job has finished whose file has the result None, nothing
\* is listed as failed and no retry was counted
C15_Witness ==
    \E w \in Workers :
        /\ pc[w] = "task_done"
        /\ url[w] \in completed
        /\ LocalPath(url[w]) \in DOMAIN hash_verification
        /\ hash_verification[LocalPath(url[w])] = "None"
        /\ failed_verifications = <<>>
        /\ retry_counts = EmptyDict
        /\ downloaded_files # <<>>

\* the file p has the recorded result False
RecordedFalse(p) ==
    p \in DOMAIN hash_verification /\ hash_verification[p] = "False"

C17_DeleteExactlyListed ==
    [][DeleteFailedVerifications =>
         LET gone == Range(failed_verifications) \cap DOMAIN disk
         IN /\ DOMAIN disk' = DOMAIN disk \ gone
            /\ \A p \in DOMAIN disk' : disk'[p] = disk[p]
            /\ Range(downloaded_files') = Range(downloaded_files) \ gone
            /\ Range(deleted') = gone
            /\ failed_verifications' = <<>>
            /\ UNCHANGED <<completed, failed, retry_counts,
                           download_queue>>]_vars

\* the state of the job of a URL submitted once, read off the manager:
\* Failed and Completed from the two sets, Retrying while a worker sleeps in
\* the backoff for it, Active from the get that returned it up to the end
\* of its attempt, Queued while it is on the queue
JobState(u) ==
    IF u \in failed THEN "Failed"
    ELSE IF u \in completed THEN "Completed"
    ELSE IF \E w \in Workers : url[w] = u /\ pc[w] = "backoff"
         THEN "Retrying"
    ELSE IF \E w \in Workers :
               url[w] = u /\ Processing(w) /\ pc[w] # "task_done"
         THEN "Active"
    ELSE IF u \in Range(download_queue) THEN "Queued"
    ELSE "None"

\* the moves a job may make
JobMoves ==
    {<<"None", "Queued">>, <<"Queued", "Active">>, <<"Active", "Completed">>,
     <<"Active", "Retrying">>, <<"Retrying", "Queued">>,
     <<"Active", "Failed">>}

\* C14: the job of every URL moves only along None->Queued, Queued->Active,
\* Active->Completed, Active->Retrying, Retrying->Queued and Active->Failed;
\* it enters Retrying only from a worker's exception handler with the retry
\* counter below 3, and Failed only from the handler with the counter at 3;
\* and a URL that is put on the queue is neither completed nor failed.
C14_JobStateMachine ==
    [][/\ \A u \in AllURLs :
             LET old == JobState(u)
                 new == JobState(u)'
                 inHandler(n) == \E w \in Workers :
                                    /\ url[w] = u /\ pc[w] = "except"
                                    /\ n
             IN old # new =>
                   /\ <<old, new>> \in JobMoves
                   /\ new = "Retrying" => inHandler(RetryCountOf(u) < 3)
                   /\ new = "Failed" => inHandler(RetryCountOf(u) = 3)
       /\ Len(download_queue') > Len(download_queue) =>
             Last(download_queue') \notin completed \cup failed]_vars

\* C14 witness: one job has been through Retrying and is Completed, one is
\* Failed
C14_Witness ==
    /\ JobState(UrlB) = "Completed"
    /\ fetchPlan[UrlB] = 0
    /\ JobState(UrlA) = "Failed"

\* the file the job of u leaves in downloaded_files
Recorded(u) ==
    \E i \in 1..Len(downloaded_files) :
        downloaded_files[i] \in
            IF IsTorrentUrl(u) THEN {TorrentPath(u)}
            ELSE {LocalPath(u), OutputPath(LocalPath(u))}

\* C13: in a batch where UrlA fails through all its retries, under fair
\* scheduling of the workers UrlB, once submitted to a started manager,
\* ends in completed with its file recorded; it is never in failed and
\* never gets a retry counter, whatever UrlA's job does.
C13_BadUrlDoesNotBlock ==
    /\ [](UrlB \notin failed)
    /\ [](UrlB \notin DOMAIN retry_counts)
    /\ (submitted[UrlB] = 1 /\ \A w \in Workers : pc[w] # "new")
           ~> (UrlB \in completed /\ Recorded(UrlB))

\* C13 witness: UrlA has failed after its three retries and UrlB is
\* completed with its file recorded
C13_Witness ==
    /\ UrlA \in failed
    /\ RetryCountOf(UrlA) = 3
    /\ fetchPlan[UrlA] = 0
    /\ UrlB \in completed /\ Recorded(UrlB)

\* the lines of content that are one of the four layouts for ubuntu.iso
UbuntuLines(content) ==
    {i \in 1..Len(content) :
        \E k \in 1..4, d \in Digests :
            content[i] = Layout(k, "ubuntu.iso", d)}

\* C20: for a checksum file whose lines for ubuntu.iso, in whichever of the
\* four layouts, all carry the digest d, parse_hash_file(content,
\* 'ubuntu.iso') returns d.
C20_SameDigestAllLayouts ==
    \A d \in {"d1", "d2"} :
        (/\ result # <<>>
         /\ UbuntuLines(arg) # {}
         /\ \A i \in UbuntuLines(arg) :
                \E k \in 1..4 : arg[i] = Layout(k, "ubuntu.iso", d))
            => result[1] = d

\* the call _decompress_if_needed returns in this step
ExpanderReturns == result = <<>> /\ result' # <<>>
\* the member, joined to the extraction directory, leaves it
ResolvesOutside(member) ==
    LET path == Abspath(JoinDir(member))
    IN \E i \in 1..Len(TargetDir) : Len(path) < i \/ path[i] # TargetDir[i]
\* the archive of the call lists a member that leaves the directory
HasTraversal ==
    /\ Expander(arg.path) = "zip"
    /\ arg.content.ok
    /\ \E i \in 1..Len(arg.content.members) :
          ResolvesOutside(arg.content.members[i])

\* C18: for a zip archive with a member that resolves outside the extraction
\* directory, _decompress_zip leaves the disk as it was (no member extracted,
\* nothing written anywhere, the archive kept) and returns no path.
C18_TraversalExtractsNothing ==
    [][(ExpanderReturns /\ HasTraversal)
          => (disk' = disk /\ result' = <<NoPath>>)]_vars
\* the call has returned for an archive whose first member is a safe image
\* and whose second member leaves the directory
C18_Witness ==
    /\ result = <<NoPath>>
    /\ HasTraversal
    /\ Len(arg.content.members) = 2
    /\ arg.content.members[1] = <<"a.iso">>
    /\ ResolvesOutside(arg.content.members[2])
    /\ DOMAIN disk = {arg.path}

\* C19: whichever the expander, a call that returns no path leaves the
\* compressed file where it was: the compressed file is removed only when
\* an output path is returned.
C19_OriginalKeptUnlessPathReturned ==
    [][(ExpanderReturns /\ arg.path \in DOMAIN disk /\ result' = <<NoPath>>)
          => arg.path \in DOMAIN disk']_vars

\* C26: in every snapshot get_status has returned, each retry counter is
\* between 1 and 3 and belongs to a URL that is not among the completed
\* ones; and a step of the manager changes a URL's counter only by adding
\* one to it (0 when absent) or by removing it.
C26_SnapshotRetryCounters ==
    /\ [](snapshots # <<>> =>
            \A u \in DOMAIN snapshots[1].retry_counts :
                /\ snapshots[1].retry_counts[u] \in 1..max_retries
                /\ u \notin snapshots[1].completed_urls)
    /\ [][\A u \in AllURLs :
            RetryCountOf(u)' # RetryCountOf(u) =>
               \/ RetryCountOf(u)' = RetryCountOf(u) + 1
               \/ RetryCountOf(u)' = 0 /\ u \in completed']_vars

\* the run of hex digits a line of the layout `<hex>  <filename>` starts with
LeadingRun(line) == Head(Strip(line))

\* C28: the dict parse_hash_file returns has an entry for the file name of a
\* line `<hex>  <filename>` only when the run has 32, 64 or 128 hex digits.
C28_OnlyThreeLengths ==
    result # <<>> =>
        \A i \in 1..Len(arg) :
            (/\ arg[i] = Layout(2, "debian.iso", LeadingRun(arg[i]))
             /\ \A j \in 1..Len(arg) : j # i => arg[j] = <<"#", " ", "ubuntu.iso">>
             /\ \E e \in 1..Len(result[1]) :
                    result[1][e][1] = <<"debian.iso">>)
                => HexLen(LeadingRun(arg[i])) \in {32, 64, 128}

\* the digest the caller supplied to the call, "None" if none
Supplied ==
    IF Truthy(arg.fedora_hash) THEN arg.fedora_hash
    ELSE IF Truthy(arg.expected_hash) THEN arg.expected_hash
    ELSE "None"
\* the digest parse_hash_file finds for ubuntu.iso in the checksum file,
\* "None" if it finds none
Listed == ParseHashFile(arg.hash_content, <<"ubuntu.iso">>)
\* the digest the call has to compare with, "None" if none can be obtained
Obtained ==
    IF Supplied # "None" THEN Supplied
    ELSE IF arg.iso_url /\ arg.hash_url /\ arg.fetch_ok THEN Listed
    ELSE "None"
\* the digest of the file under the algorithm of the length of digest e
DigestByLength(e) ==
    CASE HexLen(e) = 32 -> IF arg.content = "x" THEN "h32" ELSE "g32"
      [] HexLen(e) = 128 -> IF arg.content = "x" THEN "h128" ELSE "g128"
      [] OTHER -> IF arg.content = "x" THEN "d1" ELSE "d2"

\* C29: verify_file returns True exactly when the file can be hashed and its
\* digest under the algorithm of the expected digest's length equals the
\* expected digest (compared in lower case), False when the file does not
\* exist or the digests differ, None exactly when the file exists and no
\* expected digest can be obtained; with a digest supplied by the caller
\* neither get_hash_url nor fetch_hash_file is called.
C29_VerifyFileResult ==
    result # <<>> =>
        /\ result[1].success = "True" <=>
              /\ arg.exists /\ arg.readable /\ Obtained # "None"
              /\ DigestByLength(Obtained) = LowerTok(Obtained)
        /\ result[1].success = "None" <=> (arg.exists /\ Obtained = "None")
        /\ result[1].success \in {"True", "False", "None"}
        /\ ~arg.exists => result[1].success = "False"
        /\ Supplied # "None" => ~result[1].derived /\ ~result[1].fetched
\* verify_file has returned True for an MD5 digest supplied by the caller,
\* without a fetch
C29_Witness ==
    /\ result # <<>>
    /\ result[1].success = "True"
    /\ result[1].algorithm = "md5"
    /\ arg.expected_hash = "h32"
    /\ arg.fedora_hash = "None"
    /\ ~result[1].fetched

\* C21: when the copy ended with a non-zero status or raised, bulk_transfer
\* returns False with the status failed and the staging directory and its
\* files as they were; and the staging directory goes away only in the step
\* that follows a copy with exit status 0, or in cleanup().
C21_FailedCopyKeepsStaging ==
    /\ [][(bulk = "copied" /\ bulk' = "idle" /\ returncode # "zero") =>
             /\ result' = <<"False">>
             /\ transfer_status' = "failed"
             /\ temp_dir' = temp_dir
             /\ disk' = disk]_vars
    /\ [][(temp_dir /\ ~temp_dir') =>
             \/ bulk = "copied" /\ returncode = "zero"
             \/ Cleanup]_vars
\* bulk_transfer has returned False after a copy that failed, with both
\* files still staged
C21_Witness ==
    /\ result = <<"False">>
    /\ bulk = "idle"
    /\ returncode \in {"nonzero", "raised"}
    /\ transfer_status = "failed"
    /\ temp_dir
    /\ DOMAIN disk = StagedPaths
    /\ Len(files_to_transfer) = 2

\* C27: the status starts as pending and moves only pending->transferring,
\* transferring->completed and transferring->failed; a bulk_transfer call
\* with nothing listed returns True and leaves it pending; and every call
\* that set it to transferring has it at completed or failed when it ends.
C27_TransferPhases ==
    /\ [][transfer_status' # transfer_status =>
             <<transfer_status, transfer_status'>> \in
                 {<<"pending", "transferring">>,
                  <<"transferring", "completed">>,
                  <<"transferring", "failed">>}]_vars
    /\ [][(bulk # "idle" /\ bulk' = "idle") =>
             transfer_status' \in {"completed", "failed"}]_vars

\* no job is queued, taken by a worker, or between a retry's sleep and its
\* re-queue
NoDownloadWork ==
    /\ download_queue = <<>>
    /\ unfinished_tasks = 0
    /\ active_downloads = EmptyDict
    /\ \A w \in Workers : ~Processing(w)

\* C22: in wait_and_transfer, bulk_transfer is entered only when no download
\* job is queued, active or awaiting its retry, and while the status is
\* transferring (and from the call of bulk_transfer on) there is none.
C22_TransferAfterDrain ==
    /\ [][(bulk = "idle" /\ waiter = "stopped") => NoDownloadWork]_vars
    /\ [](transfer_status = "transferring" => NoDownloadWork)
    /\ [](waiter \in {"stopped", "done"} => NoDownloadWork)
\* the copy is running after one job completed and the other failed
C22_Witness ==
    /\ transfer_status = "transferring"
    /\ bulk = "copy"
    /\ UrlA \in failed
    /\ UrlB \in completed
    /\ fetchPlan[UrlB] = 0
    /\ files_to_transfer # <<>>

\* C23: since the remote target was opened, the first connection test is
\* the key-based one and every other test is a password test made after the
\* key-based test failed; at most max_password_attempts password tests are
\* made; no test follows a successful one, and the password loop is not
\* running after a success; a download manager exists only if the last test
\* succeeded, so not after max_password_attempts failures, a missing
\* sshpass or a cancelled prompt.
PasswordTests == {i \in DOMAIN tests : tests[i][1] = "password"}
C23_KeyFirstThenPasswords ==
    /\ setup \notin {"idle", "key_test"} => tests # <<>>
    /\ tests # <<>> => tests[1][1] = "key"
    /\ \A i \in 2..Len(tests) :
         tests[i][1] = "password" /\ tests[1][2] = "fail"
    /\ Cardinality(PasswordTests) <= max_password_attempts
    /\ \A i \in DOMAIN tests : tests[i][2] = "ok" => i = Len(tests)
    /\ setup \in {"prompt", "which", "pw_test"} =>
         \A i \in DOMAIN tests : tests[i][2] # "ok"
    /\ download_manager =>
         tests # <<>> /\ tests[Len(tests)][2] = "ok" /\ target_directory
    /\ setup = "aborted" => ~download_manager /\ ~target_directory
C23_Witness ==
    /\ setup = "aborted"
    /\ Cardinality(PasswordTests) = max_password_attempts
    /\ \A i \in DOMAIN tests : tests[i][2] = "fail"
    /\ ~download_manager

\* C24: whatever the interleaving of the threads calling is_available, the
\* binary is looked up at most once, and a value returned by a call equals
\* the value every earlier call returned.
Returns(c) == caller[c].pc = "return" /\ caller'[c].pc = "idle"
C24_OneLookupSameAnswer ==
    /\ [](lookups <= 1)
    /\ [][\A c \in Callers : Returns(c) =>
            /\ caller'[c].ret \in {"True", "False"}
            /\ lookups = 1
            /\ \A d \in Callers :
                 caller[d].ret \in {"None", caller'[c].ret}]_vars
C24_Witness ==
    /\ \A c \in Callers : caller[c].pc = "idle" /\ caller[c].ret = "True"
    /\ ~aria2c_installed
    /\ lookups = 1

\* C30: once a discovery has succeeded the cached list never changes, and
\* every later call returns it without running a remote command; a call
\* whose `pvesm status` fails returns the empty list and stores nothing, so
\* that the next call runs the command again.
C30_DiscoveryCachedOnSuccess ==
    /\ [](discover = "cached" => storages.cached /\ issued = 0)
    /\ [][/\ storages.cached => storages' = storages
          /\ discover = "idle" /\ discover' # "idle" =>
               discover' = IF storages.cached THEN "cached" ELSE "status"
          /\ discover = "cached" /\ discover' = "idle" =>
               discovered' = storages.list /\ issued' = 0
          /\ discover = "status" /\ discover' = "idle" =>
               discovered' = <<>> /\ ~storages'.cached
          /\ discover = "content" /\ discover' = "idle" =>
               storages'.cached /\ discovered' = storages'.list]_vars
C30_Witness ==
    /\ discover = "idle"
    /\ storages.cached
    /\ storages.list # <<>>
    /\ discovered = storages.list
    /\ issued = 0

\* C25: a start() call creates exactly max_workers threads, and at every
\* moment at most max_workers jobs are being processed and at most
\* max_workers URLs are in active_downloads, whatever start, add_download
\* and stop calls are made.
JobsInProgress == {w \in DOMAIN pc : Processing(w)}
Created == {w \in DOMAIN pc : pc[w] = "new" /\ pc'[w] # "new"}
StartCreatesMaxWorkers == Created # {} => Cardinality(Created) = NumWorkers
WithinMaxWorkers ==
    /\ Cardinality(JobsInProgress) <= NumWorkers
    /\ Cardinality(DOMAIN active_downloads) <= NumWorkers
C25_AtMostMaxWorkers ==
    /\ [][StartCreatesMaxWorkers]_vars
    /\ []WithinMaxWorkers

\* C25, amended: a start() call creates exactly max_workers threads, and as
\* long as start() has been called at most once, at most max_workers jobs
\* are being processed and at most max_workers URLs are in active_downloads,
\* whatever add_download and stop calls are made.
C25_AtMostMaxWorkersStartedOnce ==
    /\ [][StartCreatesMaxWorkers]_vars
    /\ [](~Started(2) => WithinMaxWorkers)
C25_Witness ==
    /\ Started(1) /\ ~Started(2)
    /\ Cardinality(JobsInProgress) = NumWorkers
    /\ Cardinality(DOMAIN active_downloads) = NumWorkers
    /\ download_queue # <<>>

\* C31: no step removes a path from hash_verification, a snapshot shows the
\* map as it is when get_status is called, and every path a snapshot shows
\* is shown by the next snapshot too, whatever downloads and
\* delete_failed_verifications calls happen in between.
C31_VerificationKept ==
    /\ [][DOMAIN hash_verification \subseteq DOMAIN hash_verification']_vars
    /\ [](snapshots # <<>> =>
            DOMAIN snapshots[1].hash_verification
               \subseteq DOMAIN hash_verification)
    /\ [][snapshots' # snapshots =>
            /\ snapshots'[1].hash_verification = hash_verification
            /\ snapshots # <<>> =>
                 DOMAIN snapshots[1].hash_verification
                    \subseteq DOMAIN snapshots'[1].hash_verification]_vars
\* C31 witness: a file that failed verification was deleted, another URL
\* was verified afterwards, and the snapshot still shows the deleted file's
\* result
C31_Witness ==
    /\ snapshots # <<>>
    /\ deleted # <<>>
    /\ deleted[1] \in DOMAIN snapshots[1].hash_verification
    /\ deleted[1] \notin DOMAIN disk
    /\ Cardinality(DOMAIN snapshots[1].hash_verification) = 2

\* C32: a worker that is waiting out its retry backoff delay does not hold
\* the manager's lock.
C32_BackoffWithoutLock ==
    \A w \in Workers : pc[w] = "backoff" => lock # w

\* C33: every file listed in downloaded_files holds its whole body, and a
\* job that is a retry finishes as completed only after its own fetch has
\* delivered the whole body.
C33_RetryRefetches ==
    /\ [](\A p \in Range(downloaded_files) :
            p \in DOMAIN disk => disk[p] = "all")
    /\ [][\A w \in Workers :
            (pc[w] = "complete" /\ Steps(w) /\ RetryCountOf(url[w]) > 0) =>
               downloaded[w] = "all"]_vars

\* C34: no URL is in completed and in failed at the same time, also when it
\* is enqueued again after it completed or failed.
C34_CompletedOrFailed == completed \cap failed = {}

\* C35: when a URL that ended in failed is taken from the queue again its
\* retry counter has been reset, so that its errors are retried up to
\* max_retries times again; and when such a job succeeds the URL leaves
\* failed.
C35_FreshBudgetAfterFailed ==
    /\ [][\A w \in Workers :
            (pc[w] = "get" /\ pc'[w] = "activate" /\ url'[w] \in failed) =>
               RetryCountOf(url'[w]) = 0]_vars
    /\ [][\A w \in Workers :
            (pc[w] = "complete" /\ Steps(w)) => url[w] \notin failed']_vars

\* C36: every path in a snapshot's downloaded_files has an entry in the
\* same snapshot's hash_verification.
C36_ListedFilesVerified ==
    snapshots # <<>> =>
        Range(snapshots[1].downloaded_files)
            \subseteq DOMAIN snapshots[1].hash_verification

\* C37: every path in failed_verifications has False as its recorded
\* verification result, and is listed once.
C37_FailedListCurrent ==
    \A i \in 1..Len(failed_verifications) :
        /\ failed_verifications[i] \in DOMAIN hash_verification
        /\ hash_verification[failed_verifications[i]] = "False"
        /\ \A j \in 1..Len(failed_verifications) :
             failed_verifications[j] = failed_verifications[i] => j = i

\* C38: when wait_and_transfer enters bulk_transfer, the files to transfer
\* are the download manager's downloaded_files, each once.
C38_TransfersDownloadedFiles ==
    [][(waiter = "stopped" /\ bulk = "idle"
          /\ (bulk' # bulk \/ waiter' # waiter)) =>
         /\ Range(files_to_transfer) = Range(downloaded_files)
         /\ Cardinality(Range(files_to_transfer)) = Len(files_to_transfer)]_vars

\* C39: a path appended to downloaded_files names a file that is on the disk
\* at that moment.
C39_ListedFileExists ==
    [][\A w \in Workers :
         (Steps(w) /\ downloaded_files' # downloaded_files) =>
            downloaded_files'[Len(downloaded_files')] \in DOMAIN disk']_vars

\* C40: once the workers were started, a call of wait_for_completion
\* eventually returns, also when stop() was called while jobs were queued or
\* re-queued.
C40_WaitReturns ==
    (waiter = "joining" /\ \A w \in Workers : pc[w] # "new")
        ~> (waiter = "returned")

====
